---- MODULE Spec2Model ----
(***************************************************************************)
(* PulsePortraiture, pptoas.py: the wideband TOA pipeline of class GetTOAs *)
(* (__init__ and get_TOAs).  Array indices of the source are 0-based; the  *)
(* sequences of this module are 1-based, so element i of a python list is  *)
(* element i+1 here.  A fit mask [phi, DM, GM, tau, alpha] is a sequence   *)
(* of five 0/1 entries: python fit_flags[2] (GM) is fit_flags[3] here.     *)
(***************************************************************************)
EXTENDS Integers, Sequences, FiniteSets, TLC

VARIABLES
    pc,             \* position of the run
    exc,            \* the uncaught exception / exit that ended the run
    scenario,       \* what the outside world can do in this run (fixed)
    datafiles,      \* self.datafiles: sequence of archive names
    modelfile,      \* the model file handed to __init__
    is_FITS_model,  \* self.is_FITS_model
    opts,           \* the arguments of the current get_TOAs call
    nfit,           \* self.nfit
    self_fit_flags, \* self.fit_flags, the base mask
    ok_idatafiles,  \* self.ok_idatafiles
    ok_isubs,       \* self.ok_isubs, one entry per aggregated archive
    order,          \* self.order, one entry per aggregated archive
    TOA_list,       \* self.TOA_list
    iarch,          \* loop variable of "for iarch, datafile in enumerate"
    data,           \* the loaded archive (d), ok_ichans already filtered
    ipos,           \* position of the subintegration loop in d.ok_isubs
    fit_flags,      \* the local fit_flags of get_TOAs (Unbound at entry)
    nloads,         \* number of load_data calls made so far
    disk,           \* what load_data found for each archive loaded so far
    engine_calls,   \* the calls made to fit_portrait_full, in order
    ncalls,         \* number of get_TOAs / get_narrowband_TOAs calls begun
    cli,            \* the parsed command line (None: used as a library)
    exit_status,    \* the exit status of the process (None: still running)
    usage_printed,  \* parser.print_help() was called
    written,        \* the list handed to write_TOAs (None: nothing written)
    loc,            \* the local arrays DMs, DM_errs, GMs, channel_snrs
    DMs,            \* self.DMs, one array per aggregated archive
    DM_errs,        \* self.DM_errs
    GMs,            \* self.GMs
    doppler_fs,     \* self.doppler_fs
    DM0s,           \* self.DM0s
    DeltaDM_means,  \* self.DeltaDM_means
    DeltaDM_errs,   \* self.DeltaDM_errs
    channel_snrs,   \* self.channel_snrs
    shown,          \* what the last show_fit call worked with
    zap_channels,   \* self.zap_channels
    zopts,          \* the arguments of the get_channels_to_zap call
    zarch,          \* its archive loop: position in self.ok_idatafiles
    zpos,           \* its subintegration loop: position in ok_isubs[zarch]
    zloc,           \* its locals (zap_channels, bad_ichans, old_len, ...)
    zap_log         \* the inputs of every subintegration it evaluated

(* the command-line state *)
cliv == <<cli, exit_status, usage_printed, written>>

(* the per-archive result lists of the accumulator *)
resv == <<DMs, DM_errs, GMs, doppler_fs, DM0s, DeltaDM_means, DeltaDM_errs,
          channel_snrs>>

(* the state of the post-fit methods *)
postv == <<shown, zap_channels, zopts, zarch, zpos, zloc, zap_log>>

vars == <<pc, exc, scenario, datafiles, modelfile, is_FITS_model, opts, nfit,
          self_fit_flags, ok_idatafiles, ok_isubs, order, TOA_list, iarch,
          data, ipos, fit_flags, nloads, disk, engine_calls, ncalls, cliv,
          loc, resv, postv>>

-----------------------------------------------------------------------------
(* Bounds of the model *)

MaxArch == 2        \* archives in a metafile (general scenarios)
MaxSub == 2         \* subintegrations per archive

(* Program constants *)

max_nfile == 999    \* pptoas.py:33
MaxNanChans == 10   \* pptoas.py:281

-----------------------------------------------------------------------------
(* Python values *)

None == <<>>
Some(x) == <<x>>
Unbound == <<>>     \* a local name that has not been assigned yet

Range(s) == {s[i] : i \in 1..Len(s)}

RECURSIVE SumSeq(_)
SumSeq(s) == IF s = <<>> THEN 0 ELSE Head(s) + SumSeq(Tail(s))

NFree(mask) == SumSeq(mask)

-----------------------------------------------------------------------------
(* Exact arithmetic for the divisions of the source: a rational is a pair  *)
(* <<numerator, denominator>> in lowest terms with a positive denominator. *)

Abs(x) == IF x < 0 THEN 0 - x ELSE x

RECURSIVE GCD(_, _)
GCD(a, b) == IF b = 0 THEN a ELSE GCD(b, a % b)

Q(n, d) ==
    LET g == GCD(Abs(n), Abs(d))
        sgn == IF d < 0 THEN 0 - 1 ELSE 1
    IN  <<(sgn * n) \div g, (sgn * d) \div g>>

QInt(n) == <<n, 1>>
QAdd(a, b) == Q(a[1] * b[2] + b[1] * a[2], a[2] * b[2])
QSub(a, b) == Q(a[1] * b[2] - b[1] * a[2], a[2] * b[2])
QMul(a, b) == Q(a[1] * b[1], a[2] * b[2])
QDiv(a, b) == Q(a[1] * b[2], a[2] * b[1])

RECURSIVE QSum(_)
QSum(s) == IF s = <<>> THEN QInt(0) ELSE QAdd(Head(s), QSum(Tail(s)))

(* x ** 0.5, kept symbolic *)
Sqrt(q) == <<"sqrt", q>>

-----------------------------------------------------------------------------
(* What load_data can return.  A subintegration is described by its good   *)
(* channels (ok_ichans) and the channels whose S/N is NaN (nan_SNR); isub  *)
(* is in ok_isubs iff the loader found it usable.                          *)

Sub(ok, chans, nans) == [ok |-> ok, ok_ichans |-> chans, nan_SNR |-> nans]

SubPool ==
    { Sub(TRUE, {0, 1, 2}, {}),
      Sub(TRUE, {0, 1}, {}),
      Sub(TRUE, {0}, {}),
      Sub(FALSE, {}, {}) }

DF == 2     \* Doppler factor of every subintegration of the pool
NBin == 8   \* nbin of every data archive of the pool
StoredDM == 8   \* the DM stored in every data archive of the pool

Archive(load, dmc, snr, nchan, subs) ==
    [load |-> load, dmc |-> dmc, prof_SNR |-> snr, nchan |-> nchan,
     nbin |-> NBin, nsub |-> Len(subs), DM |-> StoredDM,
     doppler_factors |-> [i \in 1..Len(subs) |-> DF],
     ok_isubs |-> SelectSeq([i \in 1..Len(subs) |-> i - 1],
                            LAMBDA i : subs[i + 1].ok),
     ok_ichans |-> [i \in 1..Len(subs) |-> subs[i].ok_ichans],
     nan_SNR |-> [i \in 1..Len(subs) |-> subs[i].nan_SNR]]

SubSeqs == UNION {[1..n -> SubPool] : n \in 1..MaxSub}

PlainArchives == {Archive("ok", FALSE, "finite", 3, subs) : subs \in SubSeqs}

SpecialArchives ==
    { Archive("RuntimeError", FALSE, "finite", 3, <<Sub(TRUE, {0, 1, 2}, {})>>),
      Archive("ok", TRUE, "finite", 3, <<Sub(TRUE, {0, 1, 2}, {})>>),
      Archive("ok", FALSE, "zero", 3,
              <<Sub(TRUE, {0, 1, 2}, {}), Sub(TRUE, {0, 1, 2}, {})>>),
      Archive("ok", FALSE, "nan", 3,
              <<Sub(TRUE, {0, 1, 2}, {}), Sub(TRUE, {0, 1, 2}, {})>>),
      Archive("ok", FALSE, "finite", MaxNanChans + 2,
              <<Sub(TRUE, {0}, 1..(MaxNanChans + 1))>>),
      Archive("ok", FALSE, "finite", 3,
              <<Sub(TRUE, {0, 1, 2}, {2}), Sub(TRUE, {0, 1, 2}, {})>>),
      Archive("ok", FALSE, "finite", 3,
              <<Sub(TRUE, {0}, {0}), Sub(TRUE, {0, 1, 2}, {})>>) }

ArchivePool == PlainArchives \cup SpecialArchives

(* a small pool: every subintegration has three good channels or is bad *)
SmallArchives ==
    {Archive("ok", FALSE, "finite", 3, subs) :
        subs \in UNION {[1..n -> {Sub(TRUE, {0, 1, 2}, {}),
                                  Sub(FALSE, {}, {})}] : n \in 1..MaxSub}}
    \cup {Archive("RuntimeError", FALSE, "finite", 3,
                  <<Sub(TRUE, {0, 1, 2}, {})>>)}

-----------------------------------------------------------------------------
(* The model file: a ppgauss/ppspline model, or a PSRCHIVE FITS archive.   *)

Model(kind, nchan, nbin) == [kind |-> kind, nchan |-> nchan, nbin |-> nbin]

GaussModel == Model("gmodel", 0, 0)
SplineModel == Model("spline", 0, 0)
FITSModels == { Model("FITS", 3, NBin), Model("FITS", 1, NBin),
                Model("FITS", 3, NBin + 1) }

-----------------------------------------------------------------------------
(* The arguments of get_TOAs (pptoas.py:161-167).  nu_refs is None or a    *)
(* pair whose entries are None or a frequency.                             *)

NoFlags == [k \in {} |-> <<"caller", 0>>]
CallerFlags == [k \in {"pta", "snr", "subint", "gof"} |-> <<"caller", 7>>]

DefaultOpts ==
    [fit_DM |-> TRUE, fit_GM |-> FALSE, fit_scat |-> FALSE,
     log10_tau |-> TRUE, fix_alpha |-> FALSE, bary |-> TRUE,
     nu_refs |-> None, print_phase |-> FALSE, print_flux |-> FALSE,
     print_parangle |-> FALSE, addtnl_toa_flags |-> NoFlags, DM0 |-> None,
     scat_guess |-> None]

NuRefChoices == {None, Some(<<Some(1400), Some(1400)>>),
                 Some(<<None, Some(1400)>>)}

MaskOpts ==
    {[DefaultOpts EXCEPT !.fit_DM = o[1], !.fit_GM = o[2], !.fit_scat = o[3],
                         !.fix_alpha = o[4], !.nu_refs = r] :
        o \in BOOLEAN \X BOOLEAN \X BOOLEAN \X BOOLEAN,
        r \in {None, Some(<<Some(1400), Some(1400)>>)}}

FlagOpts ==
    {[DefaultOpts EXCEPT !.fit_GM = o[1], !.fit_scat = o[1],
                         !.log10_tau = o[2],
                         !.print_phase = o[3], !.print_flux = o[3],
                         !.print_parangle = o[3],
                         !.nu_refs = r, !.addtnl_toa_flags = a] :
        o \in BOOLEAN \X BOOLEAN \X BOOLEAN,
        r \in NuRefChoices, a \in {NoFlags, CallerFlags}}

DMOpts ==
    {[DefaultOpts EXCEPT !.fit_DM = o[1], !.fit_GM = o[2], !.bary = o[3]] :
        o \in BOOLEAN \X BOOLEAN \X BOOLEAN}

(* scattering: fit_scat, bary, log10_tau, a caller's scat_guess triple     *)
(* (tau [s], its reference frequency, alpha) and an output reference       *)
(* frequency for tau, zero or not                                          *)
ScatOpts ==
    {[DefaultOpts EXCEPT !.fit_scat = o[1], !.bary = o[2], !.log10_tau = o[3],
                         !.scat_guess = g, !.nu_refs = r] :
        o \in BOOLEAN \X BOOLEAN \X BOOLEAN,
        g \in {None, Some(<<"tau_s", "tau_ref", "alpha">>)},
        r \in {None, Some(<<None, Some(1400)>>), Some(<<Some(1400), Some(0)>>)}}

(* The command line of pptoas.py (pptoas.py:1484-1581), wideband mode: are *)
(* -d and -m given, --one_DM, -f (None or "princeton"), --fix_DM.          *)
CLIArgs ==
    [datafiles : BOOLEAN, modelfile : BOOLEAN, one_DM : BOOLEAN,
     format : {None, Some("princeton")}, fit_DM : BOOLEAN]

(* pptoas.py:1589-1636: the get_TOAs arguments made from the command line *)
CLIOpts(a) == [DefaultOpts EXCEPT !.fit_DM = a.fit_DM]

MaxCalls == 2       \* calls of get_TOAs / get_narrowband_TOAs in one run

-----------------------------------------------------------------------------
(* Scenarios: the inputs a run can meet.                                   *)

ScenNFiles ==
    CASE scenario = "large" -> (max_nfile - 1)..(max_nfile + 2)
      [] scenario \in {"dm", "zap", "scat"} -> {1}
      [] OTHER -> 1..MaxArch

ScenArchives ==
    CASE scenario = "large" ->
            {Archive("ok", FALSE, "finite", 3, <<Sub(TRUE, {0, 1, 2}, {})>>)}
      [] scenario = "flags" -> PlainArchives
      [] scenario \in {"cli", "calls"} -> SmallArchives
      [] scenario = "narrow" -> PlainArchives
      [] scenario = "zap" ->
            {Archive("ok", FALSE, "finite", 3, subs) :
                subs \in UNION {[1..n -> {Sub(TRUE, {0, 1, 2}, {})}] :
                                    n \in 1..MaxSub}}
            \cup {Archive("ok", FALSE, "finite", 3,
                          <<Sub(TRUE, {0, 1, 2}, {2})>>)}
      [] scenario = "dm" ->
            {Archive("ok", FALSE, "finite", 3, subs) :
                subs \in UNION {[1..n -> {Sub(TRUE, {0, 1, 2}, {}),
                                          Sub(TRUE, {0}, {})}] :
                                    n \in 1..MaxSub}}
      [] scenario = "scat" ->
            {[Archive("ok", FALSE, "finite", 3, subs) EXCEPT
                    !.doppler_factors = [i \in 1..Len(subs) |-> DF + i - 1]] :
                subs \in UNION {[1..n -> {Sub(TRUE, {0, 1, 2}, {}),
                                          Sub(TRUE, {0, 1}, {})}] :
                                    n \in 1..MaxSub}}
      [] OTHER -> ArchivePool

ScenOptions ==
    CASE scenario = "general" -> MaskOpts
      [] scenario = "flags" -> FlagOpts
      [] scenario = "dm" -> DMOpts
      [] scenario = "scat" -> ScatOpts
      [] scenario = "cli" -> {CLIOpts(cli[1])}
      [] OTHER -> {DefaultOpts}

ScenModels ==
    CASE scenario = "fits" -> FITSModels
      [] scenario = "scat" -> {GaussModel, SplineModel}
      [] OTHER -> {GaussModel}

ScenEngine ==
    CASE scenario \in {"large", "dm", "zap", "scat", "narrow"} -> {"returns"}
      [] OTHER -> {"returns", "raises"}

ScenMaxCalls ==
    CASE scenario = "calls" -> MaxCalls
      [] OTHER -> 1

-----------------------------------------------------------------------------
(* GetTOAs.__init__ (pptoas.py:92-159)                                     *)

TooManyArchives_ge(n) == n >= max_nfile

TooManyArchives(n) == n > max_nfile

Construct ==
    /\ pc = "new"
    /\ \E n \in ScenNFiles :
         /\ datafiles' = [i \in 1..n |-> i - 1]
         /\ IF TooManyArchives(n)
            THEN /\ pc' = "exited"
                 /\ exc' = "SystemExit"
                 /\ UNCHANGED is_FITS_model
            ELSE /\ pc' = "ready"
                 /\ is_FITS_model' = (modelfile.kind = "FITS")
                 /\ UNCHANGED exc
    /\ UNCHANGED <<scenario, modelfile, opts, nfit, self_fit_flags,
                   ok_idatafiles, ok_isubs, order, TOA_list, iarch, data,
                   ipos, fit_flags, nloads, disk, engine_calls, ncalls, cliv,
                   loc, resv, postv>>

-----------------------------------------------------------------------------
(* get_TOAs, entry (pptoas.py:223-257)                                     *)

B2I(b) == IF b THEN 1 ELSE 0

NFit(o) ==
    1 + B2I(o.fit_DM) + B2I(o.fit_GM) + (IF o.fit_scat THEN 2 ELSE 0)
      - B2I(o.fix_alpha)

BaseFitFlags(o) ==
    <<1, B2I(o.fit_DM), B2I(o.fit_GM), B2I(o.fit_scat),
      B2I(o.fit_scat /\ ~o.fix_alpha)>>

Log10Tau(o) == o.fit_scat /\ o.log10_tau

GetTOAsCall ==
    /\ pc = "ready"
    /\ \E o \in ScenOptions :
         /\ opts' = o
         /\ nfit' = NFit(o)
         /\ self_fit_flags' = BaseFitFlags(o)
    /\ fit_flags' = Unbound
    /\ iarch' = 0
    /\ pc' = "archive"
    /\ ncalls' = ncalls + 1
    /\ UNCHANGED <<exc, scenario, datafiles, modelfile, is_FITS_model,
                   ok_idatafiles, ok_isubs, order, TOA_list, data, ipos,
                   nloads, disk, engine_calls, cliv, loc, resv, postv>>

-----------------------------------------------------------------------------
(* get_TOAs, head of the archive loop (pptoas.py:258-382)                  *)

NanCount(a) == SumSeq([i \in 1..a.nsub |-> Cardinality(a.nan_SNR[i])])

(* pptoas.py:284-292: channels with NaN S/N leave ok_ichans of every good  *)
(* subintegration.                                                         *)
DropNanChannels(a) ==
    IF NanCount(a) > 0
    THEN [a EXCEPT !.ok_ichans =
            [i \in 1..a.nsub |->
                IF (i - 1) \in Range(a.ok_isubs)
                THEN a.ok_ichans[i] \ a.nan_SNR[i]
                ELSE a.ok_ichans[i]]]
    ELSE a

(* pptoas.py:261-304: the outcome of the try block. *)
TryLoad(a) ==
    IF a.load = "RuntimeError" THEN "RuntimeError"
    ELSE IF a.prof_SNR \in {"nan", "zero"} THEN "bad_snr"
    ELSE IF NanCount(a) > MaxNanChans THEN "many_nan"
    ELSE IF Len(a.ok_isubs) = 0 THEN "no_subints"
    ELSE "ok"

(* pptoas.py:358-377: a FITS model is compared with the data.  The name    *)
(* freqs of line 373 is bound only if pptoaslib exports it.                *)
CheckModel(m, isfits, a, freqs_bound) ==
    IF ~isfits THEN "fit"
    ELSE IF m.nbin # a.nbin THEN "skip_nbin"
    ELSE IF m.nchan = 1 /\ ~freqs_bound THEN "NameError"
    ELSE IF m.nchan # a.nchan THEN "skip_nchan"
    ELSE "fit"

AppendOk_always(lst, i, outcome) == Append(lst, i)

(* pptoas.py:294-304 *)
AppendOk(lst, i, outcome) == IF outcome = "ok" THEN Append(lst, i) ELSE lst

(* what load_data can find: a file loaded by an earlier call of this run   *)
(* has not changed since.                                                  *)
LoadChoices ==
    IF ncalls > 1 THEN {disk[iarch + 1]} ELSE ScenArchives

(* pptoas.py:316-357: the per-archive arrays, zero until a fit fills them, *)
(* and the nominal DM0 of the archive.  covariances has one n_fit x n_fit  *)
(* slot per subintegration (pptoas.py:346-347), indexed from 0.            *)
ZeroArrays(a, dm0, n_fit) ==
    [DMs |-> [i \in 1..a.nsub |-> 0],
     covariances |->
        [i \in 1..a.nsub |->
            [p \in (0..(n_fit - 1)) \X (0..(n_fit - 1)) |-> 0]],
     DM_errs |-> [i \in 1..a.nsub |-> 0],
     GMs |-> [i \in 1..a.nsub |-> 0],
     channel_snrs |-> [i \in 1..a.nsub |-> [c \in 0..(a.nchan - 1) |-> 0]],
     DM0 |-> IF dm0 = None THEN a.DM ELSE dm0[1]]

LoadCount(a, isfits) ==
    1 + (IF a.load = "ok" /\ a.dmc THEN 1 ELSE 0)
      + (IF TryLoad(a) = "ok" /\ isfits THEN 1 ELSE 0)

LoadArchive ==
    /\ pc = "archive"
    /\ iarch < Len(datafiles)
    /\ \E a \in LoadChoices :
       \E freqs_bound \in
            (IF is_FITS_model /\ modelfile.nchan = 1 THEN BOOLEAN ELSE {TRUE}) :
         LET t == TryLoad(a)
             m == IF t = "ok"
                  THEN CheckModel(modelfile, is_FITS_model, a, freqs_bound)
                  ELSE "skip"
         IN  /\ nloads' = nloads + LoadCount(a, is_FITS_model)
             /\ disk' = Append(disk, a)
             /\ ok_idatafiles' = AppendOk(ok_idatafiles, iarch, t)
             /\ loc' = IF t = "ok" THEN ZeroArrays(a, opts.DM0, nfit) ELSE loc
             /\ IF m = "fit"
                THEN /\ data' = DropNanChannels(a)
                     /\ ipos' = 1
                     /\ pc' = "subint"
                     /\ UNCHANGED <<iarch, exc>>
                ELSE IF m = "NameError"
                THEN /\ pc' = "crashed"
                     /\ exc' = "NameError"
                     /\ UNCHANGED <<iarch, data, ipos>>
                ELSE /\ iarch' = iarch + 1
                     /\ UNCHANGED <<pc, exc, data, ipos>>
    /\ UNCHANGED <<scenario, datafiles, modelfile, is_FITS_model, opts, nfit,
                   self_fit_flags, ok_isubs, order, TOA_list, fit_flags,
                   engine_calls, ncalls, cliv, resv, postv>>

-----------------------------------------------------------------------------
(* get_TOAs, body of the subintegration loop (pptoas.py:384-711)           *)

PhaseOnly == <<1, 0, 0, 0, 0>>

NuRefTau_nodiv(o, df) ==
    IF o.nu_refs = None THEN None
    ELSE IF o.nu_refs[1][2] = None THEN None
    ELSE Some(QInt(o.nu_refs[1][2][1]))

(* pptoas.py:448-456: the output reference frequency of tau handed to the  *)
(* engine for a subintegration of Doppler factor df: None without nu_refs, *)
(* else the last entry of the caller's tuple, divided by df if bary is set *)
(* and the entry is neither None nor zero.                                 *)
NuRefTau(o, df) ==
    IF o.nu_refs = None THEN None
    ELSE LET t == o.nu_refs[1][2]
         IN  IF t = None THEN None
             ELSE IF o.bary /\ t[1] # 0 THEN Some(Q(t[1], df))
             ELSE Some(QInt(t[1]))

ScatGuess_model(o, m) ==
    LET gmodel == m.kind = "gmodel"
        tau == IF ~o.fit_scat THEN "zero"
               ELSE IF gmodel THEN "model"
               ELSE IF o.scat_guess # None THEN "caller"
               ELSE "zero"
    IN  [tau |-> IF Log10Tau(o) /\ tau = "zero" THEN "inverse_nbin" ELSE tau,
         alpha |-> IF ~o.fit_scat THEN "zero"
                   ELSE IF gmodel THEN "model"
                   ELSE IF o.scat_guess # None THEN "caller"
                   ELSE "scattering_alpha",
         log10 |-> Log10Tau(o)]

(* pptoas.py:392-418, 465-492: where the guesses of tau and alpha come     *)
(* from.  Without fit_scat both are 0.0.  With it, the caller's scat_guess *)
(* is used if it is not None; else alpha is self.alpha and tau is scaled   *)
(* from self.gparams if the object has these attributes, which read_model  *)
(* sets in the same pass when the model file is a .gmodel file and which   *)
(* nothing sets for a spline model; else alpha is scattering_alpha and tau *)
(* is 0.0.  With log10_tau a zero tau becomes 1/nbin before the logarithm. *)
ScatGuess(o, m) ==
    LET gmodel == m.kind = "gmodel"
        tau == IF ~o.fit_scat THEN "zero"
               ELSE IF o.scat_guess # None THEN "caller"
               ELSE IF gmodel THEN "model"
               ELSE "zero"
    IN  [tau |-> IF Log10Tau(o) /\ tau = "zero" THEN "inverse_nbin" ELSE tau,
         alpha |-> IF ~o.fit_scat THEN "zero"
                   ELSE IF o.scat_guess # None THEN "caller"
                   ELSE IF gmodel THEN "model"
                   ELSE "scattering_alpha",
         log10 |-> Log10Tau(o)]

SelectFitFlags_or(nchx, prev, base, fit_DM, fit_GM) ==
    IF nchx = 1 THEN PhaseOnly
    ELSE IF nchx = 2 /\ (fit_DM \/ fit_GM)
    THEN IF prev = Unbound THEN Unbound ELSE [prev EXCEPT ![3] = 0]
    ELSE base

SelectFitFlags_keep1(nchx, prev, base, fit_DM, fit_GM) ==
    IF nchx = 2 /\ fit_DM /\ fit_GM
    THEN IF prev = Unbound THEN Unbound ELSE [prev EXCEPT ![3] = 0]
    ELSE base

(* pptoas.py:519-529.  The two-channel branch clears one element of the    *)
(* local list as the previous pass of the loop left it; the result is      *)
(* Unbound (an UnboundLocalError) when no pass has assigned it yet.        *)
SelectFitFlags(nchx, prev, base, fit_DM, fit_GM) ==
    IF nchx = 1 THEN PhaseOnly
    ELSE IF nchx = 2 /\ fit_DM /\ fit_GM
    THEN IF prev = Unbound THEN Unbound ELSE [prev EXCEPT ![3] = 0]
    ELSE base

(* FitResult.covariance_matrix: square, one row per free parameter. *)
CovSize(ff) == NFree(ff)

MaxFreeIndex(ff) ==
    CHOOSE i \in 0..4 : ff[i + 1] = 1 /\ \A j \in 0..4 : ff[j + 1] = 1 => j <= i

(* pptoas.py:346-347, 645-651: storing an n x n matrix in an nfit x nfit   *)
(* slot.  Equal shapes and a 1 x 1 matrix (broadcast) are assigned; any    *)
(* other shape raises ValueError and is copied entry by entry at the       *)
(* positions of the free parameters, an IndexError if one is >= nfit.      *)
CovStoreRaises(n_fit, ff) ==
    /\ CovSize(ff) # n_fit
    /\ CovSize(ff) # 1
    /\ MaxFreeIndex(ff) >= n_fit

(* np.where(fit_flags)[0]: the positions of the free parameters, ascending *)
FreeList(ff) == SelectSeq(<<0, 1, 2, 3, 4>>, LAMBDA i : ff[i + 1] = 1)

(* FitResult.covariance_matrix[ii, jj]: the entries are nonzero and differ *)
(* from each other.                                                        *)
CovEntry(ii, jj) == 1 + ii * Len(PhaseOnly) + jj

(* pptoas.py:645-651, when no IndexError is raised: a matrix of the shape  *)
(* of the slot is assigned, a 1 x 1 matrix is broadcast to every entry of  *)
(* the slot, and any other is copied entry by entry to the positions of    *)
(* the free parameters.                                                    *)
StoreCovariance(slot, n_fit, ff) ==
    LET n == CovSize(ff)
        free == FreeList(ff)
    IN  IF n = n_fit
        THEN [p \in DOMAIN slot |-> CovEntry(p[1], p[2])]
        ELSE IF n = 1
        THEN [p \in DOMAIN slot |-> CovEntry(0, 0)]
        ELSE [p \in DOMAIN slot |->
                IF \E ii, jj \in 1..n : free[ii] = p[1] /\ free[jj] = p[2]
                THEN CovEntry((CHOOSE ii \in 1..n : free[ii] = p[1]) - 1,
                              (CHOOSE jj \in 1..n : free[jj] = p[2]) - 1)
                ELSE slot[p]]

FitDM == 3      \* the DM the engine returns
FitGM == 1      \* the GM the engine returns when GM is free
GoodSNR == 9    \* the S/N the engine returns for a channel

ScenDMs ==
    CASE scenario = "dm" -> {3, 5, StoredDM - 2, StoredDM + 2}
      [] OTHER -> {FitDM}

ScenDMErrs ==
    CASE scenario = "dm" -> {0, 1, 2}
      [] OTHER -> {0}

ScenSNRs(chans) ==
    CASE scenario = "zap" ->
            [chans -> {4, 5, 9}] \cup {[c \in chans |-> 0 - 1]}
      [] OTHER -> {[c \in chans |-> GoodSNR]}

FitNuTau == 1200    \* a tau reference frequency the engine chooses itself

(* FitResult.nu_tau: the output reference frequency of tau the engine      *)
(* reports, the one it was given or one of its own choice.                 *)
ScenNuTaus(nu) ==
    (IF nu = None THEN {} ELSE {nu[1]})
        \cup (IF nu = None \/ scenario = "scat" THEN {QInt(FitNuTau)} ELSE {})

(* FitResult of fit_portrait_full: a parameter that is not free comes back *)
(* as its guess (pptoas.py:461-465: the stored DM, and 0 for GM).          *)
FitResult(ff, d, dm, err, snrs, nu) ==
    [DM |-> IF ff[2] = 1 THEN dm ELSE d.DM,
     DM_err |-> IF ff[2] = 1 THEN err ELSE 0,
     GM |-> IF ff[3] = 1 THEN FitGM ELSE 0,
     channel_snrs |-> snrs,
     nu_tau |-> nu]

EngineResults(ff, d, chans, nu_ref_tau) ==
    IF ff = Unbound
    THEN {FitResult(PhaseOnly, d, 0, 0, [c \in chans |-> 0], QInt(FitNuTau))}
    ELSE {FitResult(ff, d, dm, err, snrs, nu) :
            dm \in ScenDMs, err \in ScenDMErrs, snrs \in ScenSNRs(chans),
            nu \in ScenNuTaus(nu_ref_tau)}

DopplerDM_always(dm, df, bary, ff) == IF bary THEN dm * df ELSE dm

(* pptoas.py:583-593 *)
DopplerDM(dm, df, bary, ff) == IF bary /\ ff[2] = 1 THEN dm * df ELSE dm

DopplerGM(gm, df, bary, ff) ==
    IF bary /\ ff[3] = 1 THEN gm * df * df * df ELSE gm

(* results after the Doppler correction *)
Corrected(r, df, bary, ff) ==
    [r EXCEPT !.DM = DopplerDM(r.DM, df, bary, ff),
              !.GM = DopplerGM(r.GM, df, bary, ff)]

(* pptoas.py:626-643: the corrected results go into row isub of the arrays *)
StoreResults(l, res, isub, chans) ==
    [l EXCEPT !.DMs[isub + 1] = res.DM,
              !.DM_errs[isub + 1] = res.DM_err,
              !.GMs[isub + 1] = res.GM,
              !.channel_snrs[isub + 1] =
                  [c \in DOMAIN @ |->
                      IF c \in chans THEN res.channel_snrs[c] ELSE @[c]]]

Val(x) == <<"computed", x>>

NuRefDM(o) == IF o.nu_refs = None THEN None ELSE o.nu_refs[1][1]

HasPhiDMCov_noref(nu_ref_DM, ff) == ff[1] = 1 /\ ff[2] = 1

(* pptoas.py:691-693 *)
HasPhiDMCov(nu_ref_DM, ff) == nu_ref_DM # None /\ ff[1] = 1 /\ ff[2] = 1

(* pptoas.py:655-705: the flags computed for one record. *)
ComputedFlags(ff, o, d, isub, nchx, res) ==
    LET lt == Log10Tau(o)
        e == << <<ff[3] = 1, "gm", res.GM>>,
                <<ff[3] = 1, "gm_err", 0>>,
                <<ff[4] = 1, "scat_time", 0>>,
                <<ff[4] = 1 /\ lt, "log10_scat_time", 0>>,
                <<ff[4] = 1 /\ lt, "log10_scat_time_err", 0>>,
                <<ff[4] = 1 /\ ~lt, "scat_time_err", 0>>,
                <<ff[4] = 1, "scat_ref_freq",
                  QMul(res.nu_tau,
                       QInt(IF o.bary THEN d.doppler_factors[isub + 1]
                            ELSE 1))>>,
                <<ff[4] = 1, "scat_ind", 0>>,
                <<ff[5] = 1, "scat_ind_err", 0>>,
                <<TRUE, "be", 0>>,
                <<TRUE, "fe", 0>>,
                <<TRUE, "f", 0>>,
                <<TRUE, "nbin", d.nbin>>,
                <<TRUE, "nch", d.nchan>>,
                <<TRUE, "nchx", nchx>>,
                <<TRUE, "bw", 0>>,
                <<TRUE, "chbw", 0>>,
                <<TRUE, "subint", isub>>,
                <<TRUE, "tobs", 0>>,
                <<TRUE, "fratio", 0>>,
                <<TRUE, "tmplt", 0>>,
                <<TRUE, "snr", 0>>,
                <<HasPhiDMCov(NuRefDM(o), ff), "phi_DM_cov", 0>>,
                <<TRUE, "gof", 0>>,
                <<o.print_phase, "phs", 0>>,
                <<o.print_phase, "phs_err", 0>>,
                <<o.print_flux, "flux", 0>>,
                <<o.print_flux, "flux_err", 0>>,
                <<o.print_flux, "flux_ref_freq", 0>>,
                <<o.print_parangle, "par_angle", 0>> >>
        on == {i \in 1..Len(e) : e[i][1]}
    IN  [k \in {e[i][2] : i \in on} |->
            Val(e[CHOOSE i \in on : e[i][2] = k][3])]

AddCallerFlags_first(flags, addtnl) ==
    [k \in DOMAIN flags \cup DOMAIN addtnl |->
        IF k \in DOMAIN flags THEN flags[k] ELSE addtnl[k]]

(* pptoas.py:706-707 *)
AddCallerFlags(flags, addtnl) ==
    [k \in DOMAIN flags \cup DOMAIN addtnl |->
        IF k \in DOMAIN addtnl THEN addtnl[k] ELSE flags[k]]

(* pptoas.py:655-658, 708-710 *)
MakeTOA(datafile, ff, o, d, isub, nchx, res) ==
    [archive |-> datafile,
     DM |-> IF ff[2] = 1 THEN Some(res.DM) ELSE None,
     DM_error |-> IF ff[2] = 1 THEN Some(res.DM_err) ELSE None,
     flags |-> AddCallerFlags(ComputedFlags(ff, o, d, isub, nchx, res),
                              o.addtnl_toa_flags)]

AppendTOA_front(lst, toa) == <<toa>> \o lst

(* pptoas.py:708-710, 1143-1145 *)
AppendTOA(lst, toa) == Append(lst, toa)

FitSubint ==
    /\ pc = "subint"
    /\ ipos <= Len(data.ok_isubs)
    /\ \E outcome \in ScenEngine :
       \E r \in EngineResults(
                    SelectFitFlags(
                        Cardinality(data.ok_ichans[data.ok_isubs[ipos] + 1]),
                        fit_flags, self_fit_flags, opts.fit_DM, opts.fit_GM),
                    data, data.ok_ichans[data.ok_isubs[ipos] + 1],
                    NuRefTau(opts,
                        data.doppler_factors[data.ok_isubs[ipos] + 1])) :
        LET isub == data.ok_isubs[ipos]
            chans == data.ok_ichans[isub + 1]
            nchx == Cardinality(chans)
            ff == SelectFitFlags(nchx, fit_flags, self_fit_flags,
                                 opts.fit_DM, opts.fit_GM)
            call == [iarch |-> iarch, isub |-> isub, nchx |-> nchx,
                     fit_flags |-> ff,
                     nu_ref_tau |->
                         NuRefTau(opts, data.doppler_factors[isub + 1]),
                     guess |-> ScatGuess(opts, modelfile),
                     ret |-> IF outcome = "raises" THEN None ELSE Some(r)]
            res == Corrected(r, data.doppler_factors[isub + 1], opts.bary, ff)
            crash == IF nchx = 0 THEN "ZeroDivisionError"
                     ELSE IF ff = Unbound THEN "UnboundLocalError"
                     ELSE IF outcome = "raises" THEN "EngineError"
                     ELSE IF CovStoreRaises(nfit, ff) THEN "IndexError"
                     ELSE "none"
        IN  /\ engine_calls' =
                IF crash \in {"ZeroDivisionError", "UnboundLocalError"}
                THEN engine_calls ELSE Append(engine_calls, call)
            /\ fit_flags' = IF nchx = 0 THEN fit_flags ELSE ff
            /\ IF crash # "none"
               THEN /\ pc' = "crashed"
                    /\ exc' = crash
                    /\ UNCHANGED <<TOA_list, ipos, loc>>
               ELSE /\ TOA_list' = AppendTOA(TOA_list,
                          MakeTOA(datafiles[iarch + 1], ff, opts, data, isub,
                                  nchx, res))
                    /\ loc' = [StoreResults(loc, res, isub, chans) EXCEPT
                                  !.covariances[isub + 1] =
                                      StoreCovariance(@, nfit, ff)]
                    /\ ipos' = ipos + 1
                    /\ pc' = IF ipos = Len(data.ok_isubs)
                             THEN "aggregate" ELSE "subint"
                    /\ UNCHANGED exc
    /\ UNCHANGED <<scenario, datafiles, modelfile, is_FITS_model, opts, nfit,
                   self_fit_flags, ok_idatafiles, ok_isubs, order, iarch,
                   data, nloads, disk, ncalls, cliv, resv, postv>>

-----------------------------------------------------------------------------
(* get_TOAs, after the subintegration loop (pptoas.py:713-792)             *)

DMWeights_unit(ok, errs) == [k \in 1..Len(ok) |-> QInt(1)]

(* pptoas.py:717-720: DM_errs[ok_isubs] ** -2 if np.all(DM_errs[ok_isubs]), *)
(* else ones                                                                *)
DMWeights(ok, errs) ==
    LET allnz == \A k \in 1..Len(ok) : errs[ok[k] + 1] # 0
    IN  [k \in 1..Len(ok) |->
            IF allnz THEN Q(1, errs[ok[k] + 1] * errs[ok[k] + 1])
            ELSE QInt(1)]

Aggregate_noinflate(ok, dms, errs, dm0) ==
    LET n == Len(ok)
        allnz == \A k \in 1..n : errs[ok[k] + 1] # 0
        w == [k \in 1..n |->
                IF allnz THEN Q(1, errs[ok[k] + 1] * errs[ok[k] + 1])
                ELSE QInt(1)]
        delta == [k \in 1..n |-> QInt(dms[ok[k] + 1] - dm0)]
        mean == QDiv(QSum([k \in 1..n |-> QMul(delta[k], w[k])]), QSum(w))
    IN  [mean |-> mean, err |-> Sqrt(QDiv(QInt(1), QSum(w)))]

(* pptoas.py:713-729: the weighted mean of the DM offsets of the good      *)
(* subintegrations and its error.  The weights are the inverse variances   *)
(* if every DM error is nonzero, else all one; the variance of the mean is *)
(* multiplied by the reduced chi-square when there are two or more.        *)
Aggregate(ok, dms, errs, dm0) ==
    LET n == Len(ok)
        w == DMWeights(ok, errs)
        delta == [k \in 1..n |-> QInt(dms[ok[k] + 1] - dm0)]
        mean == QDiv(QSum([k \in 1..n |-> QMul(delta[k], w[k])]), QSum(w))
        var0 == QDiv(QInt(1), QSum(w))
        dev == [k \in 1..n |-> QSub(delta[k], mean)]
        chi2 == QSum([k \in 1..n |-> QMul(QMul(dev[k], dev[k]), w[k])])
        var == IF n > 1 THEN QMul(var0, QDiv(chi2, QInt(n - 1))) ELSE var0
    IN  [mean |-> mean, err |-> Sqrt(var)]

FinishArchive ==
    /\ pc = "aggregate"
    /\ order' = Append(order, datafiles[iarch + 1])
    /\ ok_isubs' = Append(ok_isubs, data.ok_isubs)
    /\ LET agg == Aggregate(data.ok_isubs, loc.DMs, loc.DM_errs, loc.DM0)
       IN  /\ DeltaDM_means' = Append(DeltaDM_means, agg.mean)
           /\ DeltaDM_errs' = Append(DeltaDM_errs, agg.err)
    /\ doppler_fs' = Append(doppler_fs, data.doppler_factors)
    /\ DM0s' = Append(DM0s, loc.DM0)
    /\ DMs' = Append(DMs, loc.DMs)
    /\ DM_errs' = Append(DM_errs, loc.DM_errs)
    /\ GMs' = Append(GMs, loc.GMs)
    /\ channel_snrs' = Append(channel_snrs, loc.channel_snrs)
    /\ iarch' = iarch + 1
    /\ pc' = "archive"
    /\ UNCHANGED <<exc, scenario, datafiles, modelfile, is_FITS_model, opts,
                   nfit, self_fit_flags, ok_idatafiles, TOA_list, data, ipos,
                   fit_flags, nloads, disk, engine_calls, ncalls, cliv, loc,
                   postv>>

(* the archive loop is exhausted: get_TOAs returns *)
Return ==
    /\ pc = "archive"
    /\ iarch = Len(datafiles)
    /\ pc' = IF ncalls < ScenMaxCalls THEN "ready" ELSE "done"
    /\ UNCHANGED <<exc, scenario, datafiles, modelfile, is_FITS_model, opts,
                   nfit, self_fit_flags, ok_idatafiles, ok_isubs, order,
                   TOA_list, iarch, data, ipos, fit_flags, nloads, disk,
                   engine_calls, ncalls, cliv, loc, resv, postv>>


-----------------------------------------------------------------------------
(* get_narrowband_TOAs (pptoas.py:794-1190)                                *)

(* its arguments fit_scat, log10_tau, print_phase and print_flux *)
NarrowbandOpts ==
    {[DefaultOpts EXCEPT !.fit_scat = o[1], !.log10_tau = o[2],
                         !.print_phase = o[3], !.print_flux = o[4]] :
        o \in BOOLEAN \X BOOLEAN \X BOOLEAN \X BOOLEAN}

ScenNarrowbandOptions ==
    CASE scenario = "narrow" -> NarrowbandOpts
      [] OTHER -> {DefaultOpts}

NarrowbandFitFlags(o) == <<1, B2I(o.fit_scat)>>      \* pptoas.py:839-841

NarrowbandNFit(o) == 1 + (IF o.fit_scat THEN 2 ELSE 0)      \* pptoas.py:837-838

GetNarrowbandTOAsCall ==
    /\ pc = "ready"
    /\ \E o \in ScenNarrowbandOptions :
         /\ opts' = o
         /\ nfit' = NarrowbandNFit(o)
         /\ self_fit_flags' = NarrowbandFitFlags(o)
    /\ fit_flags' = Unbound
    /\ iarch' = 0
    /\ pc' = "nb_archive"
    /\ ncalls' = ncalls + 1
    /\ UNCHANGED <<exc, scenario, datafiles, modelfile, is_FITS_model,
                   ok_idatafiles, ok_isubs, order, TOA_list, data, ipos,
                   nloads, disk, engine_calls, cliv, loc, resv, postv>>

(* pptoas.py:860-885: the outcome of the try block *)
NarrowbandTryLoad(a) ==
    IF a.load = "RuntimeError" THEN "RuntimeError"
    ELSE IF Len(a.ok_isubs) = 0 THEN "no_subints"
    ELSE "ok"

NarrowbandLoadArchive ==
    /\ pc = "nb_archive"
    /\ iarch < Len(datafiles)
    /\ \E a \in LoadChoices :
       \E freqs_bound \in
            (IF is_FITS_model /\ modelfile.nchan = 1 THEN BOOLEAN ELSE {TRUE}) :
         LET t == NarrowbandTryLoad(a)
             m == IF t = "ok"
                  THEN CheckModel(modelfile, is_FITS_model, a, freqs_bound)
                  ELSE "skip"
         IN  /\ nloads' = nloads + 1
                            + (IF a.load = "ok" /\ a.dmc THEN 1 ELSE 0)
                            + (IF t = "ok" /\ is_FITS_model THEN 1 ELSE 0)
             /\ disk' = Append(disk, a)
             /\ ok_idatafiles' = AppendOk(ok_idatafiles, iarch, t)
             /\ loc' = IF t = "ok" THEN ZeroArrays(a, None, nfit) ELSE loc
             /\ IF m = "fit"
                THEN /\ data' = a
                     /\ ipos' = 1
                     /\ pc' = "nb_subint"
                     /\ UNCHANGED <<iarch, exc>>
                ELSE IF m = "NameError"
                THEN /\ pc' = "crashed"
                     /\ exc' = "NameError"
                     /\ UNCHANGED <<iarch, data, ipos>>
                ELSE /\ iarch' = iarch + 1
                     /\ UNCHANGED <<pc, exc, data, ipos>>
    /\ UNCHANGED <<scenario, datafiles, modelfile, is_FITS_model, opts, nfit,
                   self_fit_flags, ok_isubs, order, TOA_list, fit_flags,
                   engine_calls, ncalls, cliv, resv, postv>>

(* the elements of a set of channel indices in increasing order *)
RECURSIVE SetToSeq(_)
SetToSeq(S) ==
    IF S = {} THEN <<>>
    ELSE LET m == CHOOSE x \in S : \A y \in S : x <= y
         IN  <<m>> \o SetToSeq(S \ {m})

(* pptoas.py:1104-1142: the flags of one narrowband record *)
NarrowbandFlags(o, d, isub, ichan) ==
    LET lt == Log10Tau(o)
        names ==
            {"be", "fe", "f", "nbin", "bw", "subint", "chan", "tobs", "tmplt",
             "snr", "gof"}
            \cup (IF o.fit_scat THEN {"scat_time", "phi_tau_cov"} ELSE {})
            \cup (IF o.fit_scat /\ lt
                  THEN {"log10_scat_time", "log10_scat_time_err"} ELSE {})
            \cup (IF o.fit_scat /\ ~lt THEN {"scat_time_err"} ELSE {})
            \cup (IF o.print_phase THEN {"phs", "phs_err"} ELSE {})
            \cup (IF o.print_flux THEN {"flux", "flux_err"} ELSE {})
            \cup (IF o.print_parangle THEN {"par_angle"} ELSE {})
    IN  [k \in names |->
            IF k = "nbin" THEN Val(d.nbin)
            ELSE IF k = "subint" THEN Val(isub)
            ELSE IF k = "chan" THEN Val(ichan)
            ELSE IF k = "snr" THEN Val(GoodSNR)
            ELSE Val(0)]

(* d.freqs[isub, ichan]: the centre frequency of a channel *)
Freqs(d, isub, ichan) == <<"freqs", isub, ichan>>

(* pptoas.py:1143-1145: a narrowband record has the frequency of its       *)
(* channel and neither DM nor DM error                                     *)
MakeNarrowbandTOA(datafile, o, d, isub, ichan) ==
    [archive |-> datafile, frequency |-> Freqs(d, isub, ichan),
     DM |-> None, DM_error |-> None,
     flags |-> AddCallerFlags(NarrowbandFlags(o, d, isub, ichan),
                              o.addtnl_toa_flags)]

(* What get_narrowband_TOAs reads and never assigns: with fit_scat the     *)
(* names nu_fit_tau and rot_prof (pptoas.py:1002-1020) and doppler_factors *)
(* or df (pptoas.py:1104-1116), with print_phase the attribute phi of the  *)
(* result of fit_phase_shift (pptoas.py:1133), with print_flux the names   *)
(* fluxes and flux_errs (pptoas.py:1135-1137).  They exist only if         *)
(* pptoaslib provides them (lib); the first one missing ends the run       *)
(* before the record of the channel is appended.                           *)
NarrowbandError(o, lib) ==
    IF lib THEN "none"
    ELSE IF o.fit_scat THEN "NameError"
    ELSE IF o.print_phase THEN "AttributeError"
    ELSE IF o.print_flux THEN "NameError"
    ELSE "none"

RECURSIVE AppendAll(_, _)
AppendAll(lst, toas) ==
    IF toas = <<>> THEN lst
    ELSE AppendAll(AppendTOA(lst, Head(toas)), Tail(toas))

(* pptoas.py:936-1146: one pass of the subintegration loop fits the good   *)
(* channels in increasing order, a record each; a fit that raises ends the *)
(* run with the records of the channels before it already appended.        *)
NarrowbandFitSubint ==
    /\ pc = "nb_subint"
    /\ ipos <= Len(data.ok_isubs)
    /\ \E outcome \in ScenEngine :
       \E lib \in (IF opts.fit_scat \/ opts.print_phase \/ opts.print_flux
                   THEN BOOLEAN ELSE {TRUE}) :
        LET isub == data.ok_isubs[ipos]
            chans == SetToSeq(data.ok_ichans[isub + 1])
            err == NarrowbandError(opts, lib)
        IN  \E nfitted \in (IF err # "none" THEN {0}
                            ELSE IF outcome = "raises" /\ chans # <<>>
                            THEN 0..(Len(chans) - 1) ELSE {Len(chans)}) :
              /\ TOA_list' = AppendAll(TOA_list,
                    [k \in 1..nfitted |->
                        MakeNarrowbandTOA(datafiles[iarch + 1], opts, data,
                                          isub, chans[k])])
              /\ IF nfitted < Len(chans) \/ (err # "none" /\ opts.fit_scat)
                 THEN /\ pc' = "crashed"
                      /\ exc' = IF err # "none" THEN err ELSE "EngineError"
                      /\ UNCHANGED <<ipos, loc>>
                 ELSE /\ loc' = [loc EXCEPT !.channel_snrs[isub + 1] =
                                    [c \in DOMAIN @ |->
                                        IF c \in data.ok_ichans[isub + 1]
                                        THEN GoodSNR ELSE @[c]]]
                      /\ ipos' = ipos + 1
                      /\ pc' = IF ipos = Len(data.ok_isubs)
                               THEN "nb_aggregate" ELSE "nb_subint"
                      /\ UNCHANGED exc
    /\ UNCHANGED <<scenario, datafiles, modelfile, is_FITS_model, opts, nfit,
                   self_fit_flags, ok_idatafiles, ok_isubs, order, iarch,
                   data, fit_flags, nloads, disk, engine_calls, ncalls, cliv,
                   resv, postv>>

(* pptoas.py:1148-1170: no DM list is appended by the narrowband method *)
NarrowbandFinishArchive ==
    /\ pc = "nb_aggregate"
    /\ order' = Append(order, datafiles[iarch + 1])
    /\ ok_isubs' = Append(ok_isubs, data.ok_isubs)
    /\ doppler_fs' = Append(doppler_fs, data.doppler_factors)
    /\ channel_snrs' = Append(channel_snrs, loc.channel_snrs)
    /\ iarch' = iarch + 1
    /\ pc' = "nb_archive"
    /\ UNCHANGED <<exc, scenario, datafiles, modelfile, is_FITS_model, opts,
                   nfit, self_fit_flags, ok_idatafiles, TOA_list, data, ipos,
                   fit_flags, nloads, disk, engine_calls, ncalls, cliv, loc,
                   DMs, DM_errs, GMs, DM0s, DeltaDM_means, DeltaDM_errs,
                   postv>>

NarrowbandReturn ==
    /\ pc = "nb_archive"
    /\ iarch = Len(datafiles)
    /\ pc' = IF ncalls < ScenMaxCalls THEN "ready" ELSE "done"
    /\ UNCHANGED <<exc, scenario, datafiles, modelfile, is_FITS_model, opts,
                   nfit, self_fit_flags, ok_idatafiles, ok_isubs, order,
                   TOA_list, iarch, data, ipos, fit_flags, nloads, disk,
                   engine_calls, ncalls, cliv, loc, resv, postv>>

-----------------------------------------------------------------------------
(* show_fit (pptoas.py:1375-1477)                                          *)

(* list(np.array(self.datafiles)[self.ok_idatafiles]) *)
OkDatafiles == [k \in 1..Len(ok_idatafiles) |-> datafiles[ok_idatafiles[k] + 1]]

(* list.index: the 0-based position of the first occurrence, None (a       *)
(* ValueError) if there is none                                            *)
IndexOf(lst, x) ==
    IF x \in Range(lst)
    THEN Some((CHOOSE i \in 1..Len(lst) :
                 lst[i] = x /\ \A j \in 1..(i - 1) : lst[j] # x) - 1)
    ELSE None

(* what load_data finds for a file this run has loaded before *)
Reload(datafile) ==
    disk[CHOOSE k \in 1..Len(disk) : datafiles[((k - 1) % Len(datafiles)) + 1]
                                        = datafile]

(* pptoas.py:1409-1414: the stored value divided by df ** n when bary is   *)
(* set, whatever the mask of the fit was                                   *)
InverseDoppler(v, df, n, bary) ==
    IF bary
    THEN (IF n = 1 THEN Q(v, df) ELSE Q(v, df * df * df))
    ELSE QInt(v)

(* the exception show_fit raises before it reads the stored results *)
ShowFitError(datafile, isub) ==
    LET ifile == IndexOf(OkDatafiles, datafile)
    IN  IF ifile = None THEN "ValueError"
        ELSE IF Reload(datafile).load = "RuntimeError" THEN "RuntimeError"
        ELSE IF ifile[1] >= Len(DMs) \/ isub >= Len(DMs[ifile[1] + 1])
        THEN "IndexError"
        ELSE "none"

(* the fitted values and the good channels show_fit works with *)
ShowFitValues(datafile, isub) ==
    LET ifile == IndexOf(OkDatafiles, datafile)[1] + 1
        df == doppler_fs[ifile][isub + 1]
    IN  [datafile |-> datafile, isub |-> isub,
         DM |-> InverseDoppler(DMs[ifile][isub + 1], df, 1, opts.bary),
         GM |-> InverseDoppler(GMs[ifile][isub + 1], df, 3, opts.bary),
         ok_ichans |-> SetToSeq(Reload(datafile).ok_ichans[isub + 1])]

MaxLoads == 3      \* show_fit is not called once nloads has reached this

ShowFit ==
    /\ pc = "done"
    /\ nloads < MaxLoads
    /\ \E k \in 1..Len(datafiles) :
       \E isub \in 0..(disk[k].nsub - 1) :
         LET err == ShowFitError(datafiles[k], isub)
         IN  /\ nloads' = nloads
                    + (IF err = "ValueError" THEN 0
                       ELSE IF disk[k].load = "ok" /\ disk[k].dmc THEN 2
                       ELSE 1)
             /\ IF err # "none"
                THEN /\ pc' = "crashed"
                     /\ exc' = err
                     /\ UNCHANGED shown
                ELSE /\ shown' = Some(ShowFitValues(datafiles[k], isub))
                     /\ UNCHANGED <<pc, exc>>
    /\ UNCHANGED <<scenario, datafiles, modelfile, is_FITS_model, opts, nfit,
                   self_fit_flags, ok_idatafiles, ok_isubs, order, TOA_list,
                   iarch, data, ipos, fit_flags, disk, engine_calls, ncalls,
                   cliv, loc, resv, zap_channels, zopts, zarch, zpos, zloc,
                   zap_log>>

-----------------------------------------------------------------------------
(* get_channels_to_zap (pptoas.py:1266-1343)                               *)

ZapT == 8       \* a nonzero SNR_threshold (the default of the source)

DefaultZapOpts == [SNR_threshold |-> ZapT, iterate |-> TRUE]

NoZapLocals ==
    [zap_channels |-> <<>>, ok_ichans |-> <<>>, channel_snrs |-> <<>>,
     bad_ichans |-> <<>>, old_len |-> 0, added_new |-> FALSE, npass |-> 0]

ZapOpts == [SNR_threshold : {0, ZapT}, iterate : BOOLEAN]

(* the reduced chi-square of the channels against rchi2_threshold *)
Chi2Pool(chans) ==
    {[c \in Range(chans) |-> "ok"],
     [c \in Range(chans) |->
        IF c = 0 THEN "high" ELSE IF c = 1 THEN "nan" ELSE "ok"]}

BelowThreshold_sum(snr, T, n) == snr < 0 \/ snr * n < T

(* snr < (T ** 2 / n) ** 0.5, for n > 0 *)
BelowThreshold(snr, T, n) == snr < 0 \/ snr * snr * n < T * T

(* pptoas.py:1298-1311: the first pass over the good channels *)
RECURSIVE FirstPass(_, _, _, _, _)
FirstPass(chans, chi2, snrs, T, n) ==
    IF chans = <<>> THEN <<>>
    ELSE LET c == Head(chans)
             bad == \/ chi2[c] = "high"
                    \/ chi2[c] = "nan"
                    \/ T # 0 /\ BelowThreshold(snrs[c], T, n)
         IN  (IF bad THEN <<c>> ELSE <<>>)
                \o FirstPass(Tail(chans), chi2, snrs, T, n)

(* pptoas.py:1319-1328: one pass of the while loop; the threshold is the   *)
(* one computed at its start                                               *)
RECURSIVE IteratePass(_, _, _, _, _)
IteratePass(chans, bad, snrs, T, n) ==
    IF chans = <<>> THEN bad
    ELSE LET c == Head(chans)
             add == c \notin Range(bad) /\ BelowThreshold(snrs[c], T, n)
         IN  IteratePass(Tail(chans), IF add THEN Append(bad, c) ELSE bad,
                         snrs, T, n)

StartsIteration_always(iterate, T, bad) == T # 0 /\ Len(bad) # 0

(* pptoas.py:1314 *)
StartsIteration(iterate, T, bad) == iterate /\ T # 0 /\ Len(bad) # 0

GetChannelsToZapCall ==
    /\ pc = "done"
    /\ \E o \in ZapOpts : zopts' = o
    /\ zarch' = 0
    /\ zpos' = 1
    /\ zloc' = NoZapLocals
    /\ pc' = "zap"
    /\ UNCHANGED <<exc, scenario, datafiles, modelfile, is_FITS_model, opts,
                   nfit, self_fit_flags, ok_idatafiles, ok_isubs, order,
                   TOA_list, iarch, data, ipos, fit_flags, nloads, disk,
                   engine_calls, ncalls, cliv, loc, resv, shown,
                   zap_channels, zap_log>>

(* pptoas.py:1290-1318: the head of one pass of the subintegration loop:   *)
(* show_fit returns the good channels, the first pass marks the bad ones   *)
(* and the iteration starts if it is asked for and there are any.          *)
ZapSubint ==
    /\ pc = "zap"
    /\ zarch < Len(ok_idatafiles)
    /\ LET datafile == datafiles[ok_idatafiles[zarch + 1] + 1]
           isub == ok_isubs[zarch + 1][zpos]
           err == IF zarch >= Len(ok_isubs) THEN "IndexError"
                  ELSE ShowFitError(datafile, isub)
       IN  IF err # "none"
           THEN /\ pc' = "crashed"
                /\ exc' = err
                /\ UNCHANGED <<nloads, shown, zloc, zap_log>>
           ELSE
             LET fit == ShowFitValues(datafile, isub)
                 snrs == channel_snrs[zarch + 1][isub + 1]
                 T == zopts.SNR_threshold
             IN  \E chi2 \in Chi2Pool(fit.ok_ichans) :
                 LET bad == FirstPass(fit.ok_ichans, chi2, snrs, T,
                                      Len(fit.ok_ichans))
                 IN  /\ nloads' = nloads + 1
                     /\ shown' = Some(fit)
                     /\ zap_log' = Append(zap_log,
                            [iarch |-> zarch, pos |-> zpos, isub |-> isub,
                             ok_ichans |-> fit.ok_ichans, chi2 |-> chi2,
                             channel_snrs |-> snrs])
                     /\ zloc' = [zloc EXCEPT
                            !.ok_ichans = fit.ok_ichans,
                            !.channel_snrs = snrs,
                            !.bad_ichans = bad,
                            !.old_len = Len(bad),
                            !.added_new = TRUE,
                            !.npass = 0]
                     /\ pc' = IF StartsIteration(zopts.iterate, T, bad)
                              THEN "zap_iterate" ELSE "zap_next"
                     /\ UNCHANGED exc
    /\ UNCHANGED <<scenario, datafiles, modelfile, is_FITS_model, opts, nfit,
                   self_fit_flags, ok_idatafiles, ok_isubs, order, TOA_list,
                   iarch, data, ipos, fit_flags, disk, engine_calls, ncalls,
                   cliv, loc, resv, zap_channels, zopts, zarch, zpos>>

AddedNew_always(bad, old_len) == TRUE

(* pptoas.py:1329: bool(len(bad_ichans) - old_len) *)
AddedNew(bad, old_len) == Len(bad) - old_len # 0

(* pptoas.py:1319-1330: the test of the while loop and one pass of it;     *)
(* npass counts the passes made for the subintegration.                    *)
ZapIterate ==
    /\ pc = "zap_iterate"
    /\ LET n == Len(zloc.ok_ichans) - Len(zloc.bad_ichans)
       IN  IF zloc.added_new /\ n # 0
           THEN LET bad == IteratePass(zloc.ok_ichans, zloc.bad_ichans,
                                       zloc.channel_snrs,
                                       zopts.SNR_threshold, n)
                IN  /\ zloc' = [zloc EXCEPT
                            !.bad_ichans = bad,
                            !.added_new = AddedNew(bad, zloc.old_len),
                            !.old_len = Len(bad),
                            !.npass = @ + 1]
                    /\ UNCHANGED pc
           ELSE /\ pc' = "zap_next"
                /\ UNCHANGED zloc
    /\ UNCHANGED <<exc, scenario, datafiles, modelfile, is_FITS_model, opts,
                   nfit, self_fit_flags, ok_idatafiles, ok_isubs, order,
                   TOA_list, iarch, data, ipos, fit_flags, nloads, disk,
                   engine_calls, ncalls, cliv, loc, resv, shown,
                   zap_channels, zopts, zarch, zpos, zap_log>>

(* pptoas.py:1313, 1342-1343: the list of the subintegration is in the     *)
(* list of the archive, which is appended to self.zap_channels when the    *)
(* subintegrations of the archive are done                                 *)
ZapNextSubint ==
    /\ pc = "zap_next"
    /\ LET entries == Append(zloc.zap_channels, zloc.bad_ichans)
       IN  IF zpos = Len(ok_isubs[zarch + 1])
           THEN /\ zap_channels' = Append(zap_channels, entries)
                /\ zloc' = [zloc EXCEPT !.zap_channels = <<>>]
                /\ zarch' = zarch + 1
                /\ zpos' = 1
           ELSE /\ zloc' = [zloc EXCEPT !.zap_channels = entries]
                /\ zpos' = zpos + 1
                /\ UNCHANGED <<zap_channels, zarch>>
    /\ pc' = "zap"
    /\ UNCHANGED <<exc, scenario, datafiles, modelfile, is_FITS_model, opts,
                   nfit, self_fit_flags, ok_idatafiles, ok_isubs, order,
                   TOA_list, iarch, data, ipos, fit_flags, nloads, disk,
                   engine_calls, ncalls, cliv, loc, resv, shown, zopts,
                   zap_log>>

GetChannelsToZapReturn ==
    /\ pc = "zap"
    /\ zarch = Len(ok_idatafiles)
    /\ pc' = "zapped"
    /\ UNCHANGED <<exc, scenario, datafiles, modelfile, is_FITS_model, opts,
                   nfit, self_fit_flags, ok_idatafiles, ok_isubs, order,
                   TOA_list, iarch, data, ipos, fit_flags, nloads, disk,
                   engine_calls, ncalls, cliv, loc, resv, postv>>

-----------------------------------------------------------------------------
(* pptoas.py run as a program (pptoas.py:1479-1688)                        *)

(* optparse: parser.exit(status=0, msg=None) calls sys.exit(status) *)
ParserExitStatus == 0

(* pptoas.py:1581-1587 *)
MissingArgs(a) == ~a.datafiles \/ ~a.modelfile

ParseArgs ==
    /\ pc = "main"
    /\ \E a \in CLIArgs :
         /\ cli' = Some(a)
         /\ IF MissingArgs(a)
            THEN /\ usage_printed' = TRUE
                 /\ exit_status' = Some(ParserExitStatus)
                 /\ pc' = "exited"
                 /\ exc' = "SystemExit"
            ELSE /\ pc' = "new"
                 /\ UNCHANGED <<usage_printed, exit_status, exc>>
    /\ UNCHANGED <<scenario, datafiles, modelfile, is_FITS_model, opts, nfit,
                   self_fit_flags, ok_idatafiles, ok_isubs, order, TOA_list,
                   iarch, data, ipos, fit_flags, nloads, disk, engine_calls,
                   ncalls, written, loc, resv, postv>>

(* pptoas.py:1656-1676.  GetTOAs has no method write_princeton_TOAs.  The  *)
(* --one_DM loop reads the name toa_archive, which pptoas.py never binds:  *)
(* a NameError, or a ValueError from index() if pptoaslib exports the name *)
(* (it is then no archive name of this run).                               *)
WriteTOAs ==
    /\ pc = "done"
    /\ cli # None
    /\ \E toa_archive_bound \in BOOLEAN :
         LET a == cli[1]
             crash == IF a.format = Some("princeton") THEN "AttributeError"
                      ELSE IF a.one_DM /\ TOA_list # <<>>
                      THEN (IF toa_archive_bound THEN "ValueError"
                            ELSE "NameError")
                      ELSE "none"
         IN  IF crash # "none"
             THEN /\ pc' = "crashed"
                  /\ exc' = crash
                  /\ exit_status' = Some(1)
                  /\ UNCHANGED written
             ELSE /\ pc' = "written"
                  /\ written' = Some(TOA_list)
                  /\ exit_status' = Some(0)
                  /\ UNCHANGED exc
    /\ UNCHANGED <<scenario, datafiles, modelfile, is_FITS_model, opts, nfit,
                   self_fit_flags, ok_idatafiles, ok_isubs, order, TOA_list,
                   iarch, data, ipos, fit_flags, nloads, disk, engine_calls,
                   ncalls, cli, usage_printed, loc, resv, postv>>

-----------------------------------------------------------------------------

InitScenario(sc) ==
    /\ scenario = sc
    /\ pc = IF sc = "cli" THEN "main" ELSE "new"
    /\ exc = "none"
    /\ modelfile \in ScenModels
    /\ datafiles = <<>>
    /\ is_FITS_model = FALSE
    /\ opts = DefaultOpts
    /\ nfit = 0
    /\ self_fit_flags = <<>>
    /\ ok_idatafiles = <<>>
    /\ ok_isubs = <<>>
    /\ order = <<>>
    /\ TOA_list = <<>>
    /\ iarch = 0
    /\ data = Archive("ok", FALSE, "finite", 0, <<>>)
    /\ ipos = 1
    /\ fit_flags = Unbound
    /\ nloads = 0
    /\ disk = <<>>
    /\ engine_calls = <<>>
    /\ ncalls = 0
    /\ cli = None
    /\ exit_status = None
    /\ usage_printed = FALSE
    /\ written = None
    /\ loc = ZeroArrays(Archive("ok", FALSE, "finite", 0, <<>>), None, 0)
    /\ DMs = <<>>
    /\ DM_errs = <<>>
    /\ GMs = <<>>
    /\ doppler_fs = <<>>
    /\ DM0s = <<>>
    /\ DeltaDM_means = <<>>
    /\ DeltaDM_errs = <<>>
    /\ channel_snrs = <<>>
    /\ shown = None
    /\ zap_channels = <<>>
    /\ zopts = DefaultZapOpts
    /\ zarch = 0
    /\ zpos = 1
    /\ zloc = NoZapLocals
    /\ zap_log = <<>>

Init == InitScenario("general")
InitFlags == InitScenario("flags")
InitFITS == InitScenario("fits")
InitLarge == InitScenario("large")

Next ==
    \/ Construct
    \/ GetTOAsCall
    \/ LoadArchive
    \/ FitSubint
    \/ FinishArchive
    \/ Return

Spec == Init /\ [][Next]_vars
SpecFlags == InitFlags /\ [][Next]_vars
SpecFITS == InitFITS /\ [][Next]_vars
SpecLarge == InitLarge /\ [][Next]_vars

(* the program run from the command line *)
InitCLI == InitScenario("cli")

NextCLI ==
    \/ ParseArgs
    \/ Construct
    \/ GetTOAsCall
    \/ LoadArchive
    \/ FitSubint
    \/ FinishArchive
    \/ Return
    \/ WriteTOAs

SpecCLI == InitCLI /\ [][NextCLI]_vars

(* one get_TOAs call with varying fitted DMs and errors, then show_fit *)
InitDM == InitScenario("dm")

NextDM ==
    \/ Construct
    \/ GetTOAsCall
    \/ LoadArchive
    \/ FitSubint
    \/ FinishArchive
    \/ Return
    \/ ShowFit

SpecDM == InitDM /\ [][NextDM]_vars

(* one get_TOAs call with varying channel S/N, then get_channels_to_zap *)
InitZap == InitScenario("zap")

NextZap ==
    \/ Construct
    \/ GetTOAsCall
    \/ LoadArchive
    \/ FitSubint
    \/ FinishArchive
    \/ Return
    \/ GetChannelsToZapCall
    \/ ZapSubint
    \/ ZapIterate
    \/ ZapNextSubint
    \/ GetChannelsToZapReturn

SpecZap == InitZap /\ [][NextZap]_vars

(* the same, with the while loop of get_channels_to_zap scheduled: a       *)
(* running python loop takes its next step                                 *)
SpecZapFair == SpecZap /\ WF_vars(ZapIterate)

(* one get_TOAs call with scattering options, a .gmodel or a spline model   *)
(* and Doppler factors that differ between subintegrations                  *)
InitScat == InitScenario("scat")

SpecScat == InitScat /\ [][Next]_vars

(* one get_narrowband_TOAs call with its options varying *)
InitNarrow == InitScenario("narrow")

NextNarrow ==
    \/ Construct
    \/ GetNarrowbandTOAsCall
    \/ NarrowbandLoadArchive
    \/ NarrowbandFitSubint
    \/ NarrowbandFinishArchive
    \/ NarrowbandReturn

SpecNarrow == InitNarrow /\ [][NextNarrow]_vars

(* a sequence of get_TOAs and get_narrowband_TOAs calls on one object *)
InitCalls == InitScenario("calls")

NextCalls ==
    \/ Construct
    \/ GetTOAsCall
    \/ LoadArchive
    \/ FitSubint
    \/ FinishArchive
    \/ Return
    \/ GetNarrowbandTOAsCall
    \/ NarrowbandLoadArchive
    \/ NarrowbandFitSubint
    \/ NarrowbandFinishArchive
    \/ NarrowbandReturn

SpecCalls == InitCalls /\ [][NextCalls]_vars

-----------------------------------------------------------------------------
(* Properties *)

Records(name) == SelectSeq(TOA_list, LAMBDA r : r.archive = name)

(* the subint flags of the records of one archive, in emission order *)
SubintFlags(name) ==
    [i \in 1..Len(Records(name)) |-> Records(name)[i].flags["subint"][2]]

HasFlag(r, k) == k \in DOMAIN r.flags

(* C1: every two-channel subintegration fit with DM and GM both requested  *)
(* hands the engine the base mask with only the GM element cleared,        *)
(* wherever it stands in the run.                                          *)
C1_TwoChannelMask ==
    \A i \in 1..Len(engine_calls) :
        (engine_calls[i].nchx = 2 /\ opts.fit_DM /\ opts.fit_GM)
            => engine_calls[i].fit_flags = [self_fit_flags EXCEPT ![3] = 0]

ScatFlags == {"gm", "gm_err", "scat_time", "scat_ref_freq", "scat_ind",
              "scat_ind_err"}

(* C2: for a subintegration with one good channel the engine gets the      *)
(* phase-only mask whatever the fit options, and its record has none of    *)
(* the GM and scattering flags and neither DM nor DM uncertainty.          *)
C2_OneChannelPhaseOnly ==
    /\ \A i \in 1..Len(engine_calls) :
          engine_calls[i].nchx = 1 => engine_calls[i].fit_flags = PhaseOnly
    /\ \A i \in 1..Len(TOA_list) :
          TOA_list[i].flags["nchx"] = Val(1)
            => /\ DOMAIN TOA_list[i].flags \cap ScatFlags = {}
               /\ TOA_list[i].DM = None
               /\ TOA_list[i].DM_error = None

C2_Witness ==
    /\ opts.fit_DM /\ opts.fit_GM /\ opts.fit_scat
    /\ \E i \in 1..Len(TOA_list) : TOA_list[i].flags["nchx"] = Val(1)
    /\ \E i \in 1..Len(engine_calls) : engine_calls[i].nchx = 1

(* C3 as stated: with the default options (DM fit, GM not, bary) a record  *)
(* of a subintegration with three or more good channels has no gm flag     *)
(* and has a phi_DM_cov flag.                                              *)
C3_Original ==
    \A i \in 1..Len(TOA_list) :
        (opts = DefaultOpts /\ TOA_list[i].flags["nchx"][2] >= 3)
            => /\ ~HasFlag(TOA_list[i], "gm")
               /\ HasFlag(TOA_list[i], "phi_DM_cov")

(* C3 amended: with DM fit, GM not fit and bary set, a record of a         *)
(* subintegration with three or more good channels has no gm flag, and it  *)
(* has a phi_DM_cov flag exactly when the caller gave a DM reference       *)
(* frequency in nu_refs; with the default nu_refs the flag is absent.      *)
C3_Amended ==
    \A i \in 1..Len(TOA_list) :
        (/\ [opts EXCEPT !.nu_refs = None] = DefaultOpts
         /\ TOA_list[i].flags["nchx"][2] >= 3)
            => /\ ~HasFlag(TOA_list[i], "gm")
               /\ HasFlag(TOA_list[i], "phi_DM_cov") <=> NuRefDM(opts) # None

C3_Witness ==
    /\ opts = DefaultOpts
    /\ \E i \in 1..Len(TOA_list) :
          /\ TOA_list[i].flags["nchx"][2] >= 3
          /\ ~HasFlag(TOA_list[i], "phi_DM_cov")

(* C4: when the subintegration loop of an archive is over and no fit call  *)
(* raised, the archive has one record per good subintegration, carrying    *)
(* the indices of the good subintegrations in order.  (Stated for calls    *)
(* with fix_alpha off on archives without NaN channels.)                   *)
C4_OneRecordPerGoodSubint ==
    (/\ pc \in {"aggregate", "crashed"}
     /\ exc # "EngineError"
     /\ ~opts.fix_alpha
     /\ NanCount(data) = 0)
        => SubintFlags(datafiles[iarch + 1]) = data.ok_isubs

(* C5: every caller-supplied flag is in every record with the caller's     *)
(* value, also under the name of a computed flag.                          *)
C5_CallerFlagsWin ==
    \A i \in 1..Len(TOA_list) :
        \A k \in DOMAIN opts.addtnl_toa_flags :
            /\ HasFlag(TOA_list[i], k)
            /\ TOA_list[i].flags[k] = opts.addtnl_toa_flags[k]

C5_Witness ==
    /\ opts.addtnl_toa_flags = CallerFlags
    /\ \E i \in 1..Len(TOA_list) :
          /\ TOA_list[i].flags["snr"] = <<"caller", 7>>
          /\ TOA_list[i].flags["nchx"][1] = "computed"

(* C6: a fit call that raises is caught: it never ends the run.            *)
C6_EngineFailureCaught == ~(pc = "crashed" /\ exc = "EngineError")

(* C7: an archive that load_data could not parse leaves no trace (no       *)
(* record, no entry in ok_idatafiles nor in a per-archive list) and the    *)
(* loop has gone on to the next archive.                                   *)
C7_LoadFailureSkipped ==
    \A k \in 1..Len(disk) :
        disk[k].load = "RuntimeError"
            => /\ Records(datafiles[k]) = <<>>
               /\ (k - 1) \notin Range(ok_idatafiles)
               /\ datafiles[k] \notin Range(order)
               /\ Len(order) = Len(ok_isubs)
               /\ iarch >= k

C7_Witness ==
    /\ Len(disk) = 2
    /\ disk[1].load = "RuntimeError"
    /\ Records(datafiles[2]) # <<>>
    /\ pc = "done"

(* the good subintegrations of a loaded archive that are not degenerate *)
NonDegenerate(a) ==
    IF a.prof_SNR # "finite" \/ NanCount(a) > MaxNanChans THEN <<>>
    ELSE SelectSeq(a.ok_isubs,
                   LAMBDA i : DropNanChannels(a).ok_ichans[i + 1] # {})

(* C8: a degenerate subintegration is skipped alone: the run does not      *)
(* abort and the other subintegrations of the archive emit their records.  *)
(* (Stated for the default options and fit calls that return.)             *)
C8_DegenerateSubintSkipped ==
    (opts = DefaultOpts /\ exc # "EngineError")
        => /\ exc # "ZeroDivisionError"
           /\ \A k \in 1..Len(disk) :
                (disk[k].load = "ok" /\ (k <= iarch \/ pc = "crashed"))
                    => SubintFlags(datafiles[k]) = NonDegenerate(disk[k])

(* C9: a single-profile FITS model with the nbin of the data is a constant *)
(* template: no error, and no archive that loaded is skipped for it.       *)
C9_SingleProfileTemplate ==
    (is_FITS_model /\ modelfile.nchan = 1 /\ modelfile.nbin = NBin)
        => /\ exc # "NameError"
           /\ \A k \in 1..Len(disk) :
                (TryLoad(disk[k]) = "ok" /\ k <= iarch)
                    => datafiles[k] \in Range(order)

(* C10: constructing with more than max_nfile archives ends the run before *)
(* any archive is loaded or fit; with max_nfile or fewer it completes.     *)
C10_FileCeiling ==
    pc # "new"
        => /\ pc = "exited" <=> Len(datafiles) > max_nfile
           /\ pc = "exited"
                => nloads = 0 /\ engine_calls = <<>> /\ TOA_list = <<>>

C10_Witness ==
    /\ pc = "exited"
    /\ exc = "SystemExit"
    /\ Len(datafiles) = max_nfile + 1

C10_WitnessAtCeiling ==
    /\ pc = "done"
    /\ Len(datafiles) = max_nfile
    /\ Len(TOA_list) = max_nfile

-----------------------------------------------------------------------------
(* Properties of the command line, the DM bookkeeping, the zap evaluator   *)
(* and repeated calls                                                      *)

(* C11: run without the data-file or the model-file argument, the program  *)
(* prints its usage, processes nothing and exits with a non-zero status.   *)
C11_MissingArgsExitNonZero ==
    (cli # None /\ MissingArgs(cli[1]))
        => /\ usage_printed
           /\ nloads = 0 /\ engine_calls = <<>> /\ TOA_list = <<>>
           /\ exit_status # None
           /\ exit_status[1] # 0

(* the value the engine returned for call c, Doppler-corrected as C12 says *)
ExpectedDM(c) ==
    IF opts.bary /\ c.fit_flags[2] = 1
    THEN c.ret[1].DM * disk[c.iarch + 1].doppler_factors[c.isub + 1]
    ELSE c.ret[1].DM

ExpectedGM(c) ==
    LET df == disk[c.iarch + 1].doppler_factors[c.isub + 1]
    IN  IF opts.bary /\ c.fit_flags[3] = 1
        THEN c.ret[1].GM * df * df * df
        ELSE c.ret[1].GM

(* the row of the DM and GM arrays of the archive of call c *)
StoredDM_of(c) ==
    IF c.iarch < Len(DMs) THEN DMs[c.iarch + 1][c.isub + 1]
    ELSE loc.DMs[c.isub + 1]

StoredGM_of(c) ==
    IF c.iarch < Len(GMs) THEN GMs[c.iarch + 1][c.isub + 1]
    ELSE loc.GMs[c.isub + 1]

(* C12: with bary set the DM in the archive's DM array and on the record   *)
(* is the DM the engine returned times the Doppler factor of the           *)
(* subintegration when the mask has DM free, and the GM is the engine's GM *)
(* times the cube of the factor when the mask has GM free; with bary off   *)
(* both are the engine's values.                                           *)
C12_DopplerCorrection ==
    \A i \in 1..Len(engine_calls) :
        LET c == engine_calls[i]
        IN  /\ StoredDM_of(c) = ExpectedDM(c)
            /\ StoredGM_of(c) = ExpectedGM(c)
            /\ c.fit_flags[2] = 1 => TOA_list[i].DM = Some(ExpectedDM(c))
            /\ c.fit_flags[3] = 1 => TOA_list[i].flags["gm"] = Val(ExpectedGM(c))
            /\ ~opts.bary => /\ StoredDM_of(c) = c.ret[1].DM
                             /\ StoredGM_of(c) = c.ret[1].GM

C12_Witness ==
    /\ opts.bary /\ opts.fit_DM /\ opts.fit_GM
    /\ Len(DMs) = 1
    /\ \E i \in 1..Len(engine_calls) :
          /\ engine_calls[i].fit_flags = <<1, 1, 1, 0, 0>>
          /\ StoredDM_of(engine_calls[i]) = engine_calls[i].ret[1].DM * DF
          /\ TOA_list[i].flags["gm"] = Val(FitGM * DF * DF * DF)
    /\ \E i \in 1..Len(engine_calls) :
          /\ engine_calls[i].fit_flags = PhaseOnly
          /\ StoredDM_of(engine_calls[i]) = StoredDM

(* C13: with fit_DM off and bary set, every record still has a DM, and it  *)
(* is the unfitted DM times the Doppler factor of its subintegration.      *)
C13_FixedDMBarycentred ==
    \A i \in 1..Len(TOA_list) :
        (~opts.fit_DM /\ opts.bary)
            => TOA_list[i].DM =
                 Some(engine_calls[i].ret[1].DM
                        * disk[engine_calls[i].iarch + 1]
                            .doppler_factors[engine_calls[i].isub + 1])

(* the engine call that fit subintegration isub of archive name *)
CallOf(name, isub) ==
    CHOOSE i \in 1..Len(engine_calls) :
        /\ datafiles[engine_calls[i].iarch + 1] = name
        /\ engine_calls[i].isub = isub

IsFit(name, isub) ==
    \E i \in 1..Len(engine_calls) :
        /\ datafiles[engine_calls[i].iarch + 1] = name
        /\ engine_calls[i].isub = isub

(* C14: with bary set, for every fit subintegration and every combination  *)
(* of fit options the DM and GM show_fit works with (the stored values     *)
(* divided by the Doppler factor and by its cube) are exactly the DM and   *)
(* GM the engine returned; and show_fit leaves the stored arrays as they   *)
(* were.                                                                   *)
C14_DopplerRoundTrip ==
    /\ [](  (shown # None /\ opts.bary /\ IsFit(shown[1].datafile, shown[1].isub))
              => LET r == engine_calls[CallOf(shown[1].datafile,
                                              shown[1].isub)].ret[1]
                 IN  /\ shown[1].DM = QInt(r.DM)
                     /\ shown[1].GM = QInt(r.GM))
    /\ [][pc = "done" => resv' = resv]_vars

(* the DM offset and DM error of the j-th good subintegration of the k-th  *)
(* aggregated archive                                                      *)
DeltaDM(k, j) == DMs[k][ok_isubs[k][j] + 1] - DM0s[k]
DMErr(k, j) == DM_errs[k][ok_isubs[k][j] + 1]

(* C15: an archive with two good subintegrations whose DM offsets are +x   *)
(* and -x with equal nonzero errors has a stored mean offset of 0, and the *)
(* variance of the mean is x^2 (stored as DeltaDM_err, its square root).   *)
C15_SymmetricPairAggregate ==
    \A k \in 1..Len(DeltaDM_means) :
        (/\ Len(ok_isubs[k]) = 2
         /\ DeltaDM(k, 1) = 0 - DeltaDM(k, 2)
         /\ DMErr(k, 1) = DMErr(k, 2)
         /\ DMErr(k, 1) # 0)
            => /\ DeltaDM_means[k] = QInt(0)
               /\ DeltaDM_errs[k] = Sqrt(QInt(DeltaDM(k, 1) * DeltaDM(k, 1)))

C15_Witness ==
    \E k \in 1..Len(DeltaDM_means) :
        /\ Len(ok_isubs[k]) = 2
        /\ DeltaDM(k, 1) = 2 /\ DeltaDM(k, 2) = 0 - 2
        /\ DMErr(k, 1) = 1 /\ DMErr(k, 2) = 1
        /\ DeltaDM_means[k] = QInt(0)
        /\ DeltaDM_errs[k] = Sqrt(QInt(4))

(* the entry get_channels_to_zap recorded for logged evaluation e *)
Recorded(e) == zap_channels[e.iarch + 1][e.pos]

Retained(e) == Range(e.ok_ichans) \ Range(Recorded(e))

(* C16: after get_channels_to_zap with iterate set and a nonzero           *)
(* SNR_threshold T every recorded entry is a fixed point: each retained    *)
(* channel has S/N >= sqrt(T^2 / n), n the number of retained channels.    *)
C16_ZapFixedPoint ==
    (pc = "zapped" /\ zopts.iterate /\ zopts.SNR_threshold # 0)
        => \A j \in 1..Len(zap_log) :
             LET e == zap_log[j]
                 n == Cardinality(Retained(e))
                 T == zopts.SNR_threshold
             IN  \A c \in Retained(e) :
                    /\ e.channel_snrs[c] >= 0
                    /\ e.channel_snrs[c] * e.channel_snrs[c] * n >= T * T

C16_Witness ==
    /\ pc = "zapped" /\ zopts.iterate /\ zopts.SNR_threshold = ZapT
    /\ \E j \in 1..Len(zap_log) :
          /\ zap_log[j].ok_ichans = <<0, 1, 2>>
          /\ zap_log[j].channel_snrs =
                [c \in 0..2 |-> IF c = 0 THEN 5 ELSE IF c = 1 THEN 4 ELSE 9]
          /\ \A c \in 0..2 : zap_log[j].chi2[c] = "ok"
          /\ Recorded(zap_log[j]) = <<1, 0>>
          /\ Retained(zap_log[j]) = {2}

(* channel S/N 4, 5, 9 with T = 8: the first threshold 8/sqrt(3) fails     *)
(* only the 4; without it the threshold 8/sqrt(2) fails the 5 as well      *)
Engineered(e) ==
    /\ e.ok_ichans = <<0, 1, 2>>
    /\ e.channel_snrs = [c \in 0..2 |-> IF c = 0 THEN 4 ELSE IF c = 1 THEN 5 ELSE 9]
    /\ \A c \in 0..2 : e.chi2[c] = "ok"
    /\ zopts.SNR_threshold = 8

(* C17: in the engineered case iterate=True proposes both low channels and *)
(* iterate=False only the lowest; in general the channels proposed with    *)
(* iterate=True include those of the single pass, which is all that        *)
(* iterate=False proposes.                                                 *)
C17_IterateSuperset ==
    pc = "zapped"
        => \A j \in 1..Len(zap_log) :
             LET e == zap_log[j]
                 single == FirstPass(e.ok_ichans, e.chi2, e.channel_snrs,
                                     zopts.SNR_threshold, Len(e.ok_ichans))
             IN  /\ zopts.iterate => Range(single) \subseteq Range(Recorded(e))
                 /\ ~zopts.iterate => Recorded(e) = single
                 /\ Engineered(e)
                      => Recorded(e) = IF zopts.iterate THEN <<0, 1>> ELSE <<0>>

C17_Witness ==
    /\ pc = "zapped" /\ ~zopts.iterate
    /\ \E j \in 1..Len(zap_log) :
          Engineered(zap_log[j]) /\ Recorded(zap_log[j]) = <<0>>

C17_WitnessIterate ==
    /\ pc = "zapped" /\ zopts.iterate
    /\ \E j \in 1..Len(zap_log) :
          Engineered(zap_log[j]) /\ Recorded(zap_log[j]) = <<0, 1>>

(* C18: nfit is the number of free parameters of the base mask, so that    *)
(* fix_alpha changes nothing when fit_scat is off.                         *)
C18_NFitIsFreeCount ==
    pc \notin {"new", "ready"} => nfit = NFree(self_fit_flags)

(* the position of an archive among the archives that loaded *)
IFile(name) == IndexOf(OkDatafiles, name)[1] + 1

GetTOAsErrors == {"ZeroDivisionError", "UnboundLocalError", "EngineError",
                  "IndexError"}

(* C19: with --one_DM and the default format the rewrite pass completes    *)
(* without error and every written TOA has the DeltaDM mean of its archive *)
(* plus DM0 as DM, the DeltaDM error as DM uncertainty, and a DM_mean flag.*)
C19_OneDMRewrite ==
    (/\ cli # None /\ ~MissingArgs(cli[1])
     /\ cli[1].one_DM /\ cli[1].format = None
     /\ pc \in {"written", "crashed"} /\ exc \notin GetTOAsErrors)
        => /\ pc = "written"
           /\ \A i \in 1..Len(written[1]) :
                LET toa == written[1][i]
                    k == IFile(toa.archive)
                IN  /\ toa.DM = Some(QAdd(DeltaDM_means[k], QInt(DM0s[k])))
                    /\ toa.DM_error = Some(DeltaDM_errs[k])
                    /\ "DM_mean" \in DOMAIN toa.flags

IsPrefix(s, t) ==
    /\ Len(s) <= Len(t)
    /\ \A i \in 1..Len(s) : s[i] = t[i]

(* C20: TOA_list only grows at its end over any sequence of get_TOAs and   *)
(* get_narrowband_TOAs calls, each state a prefix of every later one; the  *)
(* new records are those of the archive and good subintegration the loops  *)
(* are at, and the loops go through the archives and through the good      *)
(* subintegrations of an archive in order.                                 *)
C20_AppendOnlyOrdered ==
    [][/\ IsPrefix(TOA_list, TOA_list')
       /\ \A i \in (Len(TOA_list) + 1)..Len(TOA_list') :
            /\ TOA_list'[i].archive = datafiles[iarch + 1]
            /\ TOA_list'[i].flags["subint"] = Val(data.ok_isubs[ipos])
       /\ ncalls' = ncalls => iarch' >= iarch
       /\ (pc' = pc /\ pc \in {"subint", "nb_subint"}) => ipos' = ipos + 1
       /\ \A j \in 1..(Len(data'.ok_isubs) - 1) :
            data'.ok_isubs[j] < data'.ok_isubs[j + 1]]_vars

C20_Witness ==
    /\ ncalls = 2
    /\ pc = "done"
    /\ Len(TOA_list) >= 5
    /\ \E i, j \in 1..Len(TOA_list) :
          /\ i < j
          /\ HasFlag(TOA_list[i], "chan")
          /\ HasFlag(TOA_list[j], "nchx")
          /\ TOA_list[i].archive = 1
          /\ TOA_list[j].archive = 0

-----------------------------------------------------------------------------
(* C22: every mask handed to the engine by get_TOAs has its phase element  *)
(* set; and for a subintegration with three or more good channels, or with *)
(* two when DM and GM are not both requested, the mask is the base mask of *)
(* the call's options.                                                     *)
C22_PhiAlwaysFree ==
    \A i \in 1..Len(engine_calls) :
        LET c == engine_calls[i]
            both == opts.fit_DM /\ opts.fit_GM
        IN  /\ c.fit_flags[1] = 1
            /\ (c.nchx >= 3 \/ (c.nchx = 2 /\ ~both))
                 => c.fit_flags =
                      << 1,
                         IF opts.fit_DM THEN 1 ELSE 0,
                         IF opts.fit_GM THEN 1 ELSE 0,
                         IF opts.fit_scat THEN 1 ELSE 0,
                         IF opts.fit_scat /\ ~opts.fix_alpha THEN 1 ELSE 0 >>

(* a one-channel fit is followed by a two-channel fit with DM and          *)
(* scattering but no GM requested, and by a three-channel fit              *)
C22_Witness ==
    /\ opts.fit_DM /\ ~opts.fit_GM /\ opts.fit_scat
    /\ \E i, j, k \in 1..Len(engine_calls) :
          /\ i < j /\ j < k
          /\ engine_calls[i].nchx = 1
          /\ engine_calls[j].nchx = 2
          /\ engine_calls[k].nchx = 3

-----------------------------------------------------------------------------
(* C28: the fit mask handed to the engine for a subintegration depends     *)
(* only on the subintegration's data and the call's options, not on what   *)
(* was processed before it: within one call, two subintegrations with the  *)
(* same number of good channels get the same mask.                         *)
C28_MaskIndependentOfHistory ==
    \A i, j \in 1..Len(engine_calls) :
        engine_calls[i].nchx = engine_calls[j].nchx
            => engine_calls[i].fit_flags = engine_calls[j].fit_flags

-----------------------------------------------------------------------------
(* C30: when get_TOAs has returned, ok_idatafiles and the per-archive       *)
(* result lists have the same length, and ok_idatafiles[k] is the index in  *)
(* datafiles of the archive whose results are at position k.                *)
C30_OkIdatafilesAligned ==
    (pc = "done" /\ ncalls >= 1)
        => /\ Len(ok_idatafiles) = Len(ok_isubs)
           /\ Len(ok_idatafiles) = Len(DMs)
           /\ Len(ok_idatafiles) = Len(DeltaDM_means)
           /\ Len(ok_idatafiles) = Len(channel_snrs)
           /\ \A k \in 1..Len(ok_idatafiles) :
                 k <= Len(order)
                    => order[k] = datafiles[ok_idatafiles[k] + 1]

-----------------------------------------------------------------------------
(* C27: a channel that get_TOAs dropped from the good channels of a        *)
(* subintegration for its NaN S/N is not among the good channels that      *)
(* get_channels_to_zap evaluates for that subintegration.                  *)
C27_DroppedChannelStaysDropped ==
    \A i \in 1..Len(zap_log) :
        LET e == zap_log[i]
            a == disk[ok_idatafiles[e.iarch + 1] + 1]
        IN  Range(e.ok_ichans) \cap a.nan_SNR[e.isub + 1] = {}

-----------------------------------------------------------------------------
(* C24: the stored mean DM offset of an archive is the weighted mean of    *)
(* the offsets of its good subintegrations, with weights 1/err^2 when all  *)
(* DM errors are nonzero and 1 otherwise; the stored variance is 1 over    *)
(* the sum of the weights, times sum((dDM - mean)^2 * w)/(n - 1) exactly   *)
(* when n > 1; no division is by zero.                                     *)
C24_AggregateWeights ==
    \A k \in 1..Len(DeltaDM_means) :
        LET n == Len(ok_isubs[k])
            allnz == \A j \in 1..n : DMErr(k, j) # 0
            w == [j \in 1..n |->
                    IF allnz THEN Q(1, DMErr(k, j) * DMErr(k, j))
                    ELSE QInt(1)]
            S == QSum(w)
            mean == DeltaDM_means[k]
            var == DeltaDM_errs[k][2]
            dev == [j \in 1..n |-> QSub(QInt(DeltaDM(k, j)), mean)]
            chi2 == QSum([j \in 1..n |-> QMul(QMul(dev[j], dev[j]), w[j])])
        IN  /\ mean[2] > 0
            /\ var[2] > 0
            /\ QMul(mean, S) = QSum([j \in 1..n |->
                                        QMul(QInt(DeltaDM(k, j)), w[j])])
            /\ n = 1 => QMul(var, S) = QInt(1)
            /\ n > 1 => QMul(QMul(var, S), QInt(n - 1)) = chi2

(* an archive with a single good subintegration, DM error 2: variance 4 *)
C24_Witness ==
    \E k \in 1..Len(DeltaDM_means) :
        /\ Len(ok_isubs[k]) = 1
        /\ DMErr(k, 1) = 2
        /\ DeltaDM(k, 1) # 0
        /\ DeltaDM_errs[k] = Sqrt(QInt(4))

(* two good subintegrations with unequal nonzero errors and unequal offsets *)
C24_WitnessPair ==
    \E k \in 1..Len(DeltaDM_means) :
        /\ Len(ok_isubs[k]) = 2
        /\ DMErr(k, 1) = 1 /\ DMErr(k, 2) = 2
        /\ DeltaDM(k, 1) # DeltaDM(k, 2)

(* two good subintegrations, one with a zero DM error: unit weights *)
C24_WitnessZeroError ==
    \E k \in 1..Len(DeltaDM_means) :
        /\ Len(ok_isubs[k]) = 2
        /\ DMErr(k, 1) = 0 /\ DMErr(k, 2) = 2
        /\ DeltaDM(k, 1) # DeltaDM(k, 2)

-----------------------------------------------------------------------------
(* C29: the zap iteration terminates.  The bad set holds no channel twice  *)
(* and is a subset of the good channels of the subintegration, and the     *)
(* loop has made at most as many passes as there are good channels; each   *)
(* pass adds at least one new channel or is the last one; and when no      *)
(* good channel remains the loop is left without a further pass; a loop    *)
(* that was entered is eventually left.                                    *)
C29_NoDuplicates ==
    /\ \A i, j \in 1..Len(zloc.bad_ichans) :
          zloc.bad_ichans[i] = zloc.bad_ichans[j] => i = j
    /\ Range(zloc.bad_ichans) \subseteq Range(zloc.ok_ichans)
    /\ zloc.npass <= Len(zloc.ok_ichans)

C29_PassAddsOrEnds ==
    (pc = "zap_iterate" /\ pc' = "zap_iterate")
        => /\ zloc'.npass = zloc.npass + 1
           /\ IsPrefix(zloc.bad_ichans, zloc'.bad_ichans)
           /\ \/ Len(zloc'.bad_ichans) > Len(zloc.bad_ichans)
              \/ ~zloc'.added_new

C29_LoopLeft ==
    (/\ pc = "zap_iterate"
     /\ \/ ~zloc.added_new
        \/ Len(zloc.bad_ichans) = Len(zloc.ok_ichans))
        => /\ pc' = "zap_next"
           /\ zloc' = zloc

C29_ZapIterationTerminates ==
    /\ []C29_NoDuplicates
    /\ [][C29_PassAddsOrEnds /\ C29_LoopLeft]_vars
    /\ (pc = "zap_iterate") ~> (pc = "zap_next")

(* two passes over three good channels: the first added a channel, the     *)
(* second added none and ended the loop                                    *)
C29_Witness ==
    /\ pc = "zap_next"
    /\ Len(zloc.ok_ichans) = 3
    /\ zloc.npass = 2
    /\ Len(zloc.bad_ichans) = 2
    /\ ~zloc.added_new

(* the loop is left because no good channel remains *)
C29_WitnessNoneLeft ==
    /\ pc = "zap_next"
    /\ zloc.npass >= 1
    /\ zloc.added_new
    /\ Len(zloc.bad_ichans) = Len(zloc.ok_ichans)

-----------------------------------------------------------------------------
(* C23: when an override of the one-channel or two-channel case held       *)
(* parameters fixed, the covariance stored for the subintegration is a     *)
(* 5 x 5 slot whose entry (free[i], free[j]) is entry (i, j) of the        *)
(* returned matrix, free being the ascending positions of the free         *)
(* parameters, and whose other entries are zero.                           *)
C23_CovarianceRemapped ==
    \A i \in 1..Len(engine_calls) :
        LET c == engine_calls[i]
            ff == c.fit_flags
            free == {k \in 0..4 : ff[k + 1] = 1}
            rank(k) == Cardinality({m \in free : m < k})
            stored == loc.covariances[c.isub + 1]
        IN  (/\ c.iarch = iarch
             /\ pc \in {"subint", "aggregate"}
             /\ c.nchx \in {1, 2}
             /\ ff # self_fit_flags)
                => /\ DOMAIN stored = (0..4) \X (0..4)
                   /\ \A p \in DOMAIN stored :
                        stored[p] = IF p[1] \in free /\ p[2] \in free
                                    THEN CovEntry(rank(p[1]), rank(p[2]))
                                    ELSE 0

-----------------------------------------------------------------------------
(* the Doppler factor of the subintegration of logged engine call c *)
DopplerOf(c) == disk[c.iarch + 1].doppler_factors[c.isub + 1]

(* the records emitted for the subintegration of logged engine call c *)
RecordsOf(c) ==
    {i \in 1..Len(TOA_list) :
        /\ TOA_list[i].archive = datafiles[c.iarch + 1]
        /\ TOA_list[i].flags["subint"] = Val(c.isub)}

(* C25: with bary set and a nonzero output reference frequency v for tau   *)
(* given by the caller, the frequency handed to the engine for every       *)
(* subintegration is v divided once by the Doppler factor of that          *)
(* subintegration, the caller's tuple keeps v, and the scat_ref_freq flag  *)
(* of the record is v when the engine reports the reference frequency it   *)
(* was given.                                                              *)
C25_TauReferenceRoundTrip ==
    \A i \in 1..Len(engine_calls) :
        LET c == engine_calls[i]
            v == opts.nu_refs[1][2][1]
        IN  (/\ opts.bary
             /\ opts.nu_refs # None
             /\ opts.nu_refs[1][2] # None
             /\ v # 0)
                => /\ c.nu_ref_tau # None
                   /\ QMul(c.nu_ref_tau[1], QInt(DopplerOf(c))) = QInt(v)
                   /\ \A k \in RecordsOf(c) :
                        (/\ HasFlag(TOA_list[k], "scat_ref_freq")
                         /\ c.ret[1].nu_tau = c.nu_ref_tau[1])
                            => TOA_list[k].flags["scat_ref_freq"] = Val(QInt(v))

(* two subintegrations with different Doppler factors were fit for         *)
(* scattering, the engine reported the reference frequency it was given,   *)
(* and the second record carries the flag                                  *)
C25_Witness ==
    /\ opts.bary /\ opts.fit_scat
    /\ opts.nu_refs = Some(<<None, Some(1400)>>)
    /\ Len(engine_calls) = 2
    /\ Len(TOA_list) = 2
    /\ DopplerOf(engine_calls[1]) # DopplerOf(engine_calls[2])
    /\ engine_calls[2].ret[1].nu_tau = engine_calls[2].nu_ref_tau[1]
    /\ HasFlag(TOA_list[2], "scat_ref_freq")

-----------------------------------------------------------------------------
(* C26 as stated: when scattering is fit, the guess of tau and alpha comes *)
(* from the model file whenever it provides them, else from the caller's   *)
(* scat_guess, else tau is zero.                                           *)
C26_Original ==
    \A i \in 1..Len(engine_calls) :
        LET g == engine_calls[i].guess
        IN  opts.fit_scat
              => IF modelfile.kind = "gmodel"
                 THEN g.tau = "model" /\ g.alpha = "model"
                 ELSE IF opts.scat_guess # None
                 THEN g.tau = "caller" /\ g.alpha = "caller"
                 ELSE g.tau \in {"zero", "inverse_nbin"}

(* C26, amended: the caller's scat_guess comes first, then the model file, *)
(* then zero (1/nbin under log10_tau) with the default alpha.              *)
C26_Amended ==
    \A i \in 1..Len(engine_calls) :
        LET g == engine_calls[i].guess
        IN  opts.fit_scat
              => IF opts.scat_guess # None
                 THEN g.tau = "caller" /\ g.alpha = "caller"
                 ELSE IF modelfile.kind = "gmodel"
                 THEN g.tau = "model" /\ g.alpha = "model"
                 ELSE /\ g.tau = IF opts.log10_tau THEN "inverse_nbin"
                                 ELSE "zero"
                      /\ g.alpha = "scattering_alpha"

(* scattering is fit with a .gmodel file and a caller's scat_guess *)
C26_Witness ==
    /\ opts.fit_scat
    /\ opts.scat_guess # None
    /\ modelfile.kind = "gmodel"
    /\ \E i \in 1..Len(engine_calls) : engine_calls[i].guess.tau = "caller"

-----------------------------------------------------------------------------
(* the records of channel ichan of subintegration isub of archive name *)
ChannelRecords(name, isub, ichan) ==
    {i \in 1..Len(TOA_list) :
        /\ TOA_list[i].archive = name
        /\ TOA_list[i].flags["subint"] = Val(isub)
        /\ TOA_list[i].flags["chan"] = Val(ichan)}

(* C21: get_narrowband_TOAs ends without an exception for every            *)
(* combination of fit_scat, log10_tau, print_phase and print_flux, and     *)
(* when it has returned every good channel of every good subintegration    *)
(* of every archive that was fit has exactly one record, with the          *)
(* frequency of the channel and neither DM nor DM error.                   *)
C21_NarrowbandRecords ==
    /\ exc = "none"
    /\ pc = "done"
         => \A k \in 1..Len(order) :
              LET a == disk[order[k] + 1]
              IN  \A isub \in Range(a.ok_isubs) :
                  \A ichan \in a.ok_ichans[isub + 1] :
                    /\ Cardinality(ChannelRecords(order[k], isub, ichan)) = 1
                    /\ \A i \in ChannelRecords(order[k], isub, ichan) :
                          /\ TOA_list[i].frequency = Freqs(a, isub, ichan)
                          /\ TOA_list[i].DM = None
                          /\ TOA_list[i].DM_error = None

====
